---- MODULE Spec2Model ----
(***************************************************************************)
(* Batch migration of Zoom cloud recordings to Google Drive:               *)
(* the progress ledger (progress_log.py) and the migration loop            *)
(* (zoom_recording_downloader.py main).                                    *)
(*                                                                         *)
(* Sizes are counted in whole units of one fixed fraction of a GB, so      *)
(* that the float sums of the program are exact integer sums here.         *)
(* Time is a tick counter; TicksPerDay ticks make one UTC calendar day.    *)
(***************************************************************************)
EXTENDS Integers, Sequences, FiniteSets, TLC

VARIABLES
    file,       \* the ledger file on disk: [state, data]
    log,        \* ProgressLog.log_data of the running process
    pc,         \* position of the process in main()
    now,        \* the UTC clock, in ticks
    limit,      \* args.batch_size_gb, the same for every run
    nat,        \* the manifest ends with a row whose Start Time does not parse
    call,       \* a call of a helper function: its name, arguments and result
    dryRun,     \* args.dry_run of the running process
    rowIdx,     \* index of the manifest row being processed
    fileIdx,    \* index of the file of that row being processed
    uploadOk,   \* result of drive_service.upload_file for the file in flight
    exitCode,   \* exit status of the last process that ended
    starts,     \* number of process starts so far
    uploads,    \* per file: number of successful uploads to the destination
    recordedOn, \* per UTC day: total size recorded complete on that day
    startDay,   \* UTC day on which the current (or last) run started
    prevDay,    \* UTC day on which the run before it started
    ev          \* the last operation performed, with its arguments

vars == <<file, log, pc, now, limit, nat, call, dryRun, rowIdx, fileIdx, uploadOk,
          exitCode, starts, uploads, recordedOn, startDay, prevDay, ev>>

-----------------------------------------------------------------------------
(* Bounds of the model *)

MaxDay == 2         \* the clock stops at the end of this UTC day
TicksPerDay == 2    \* instants told apart within one UTC day
MaxLimit == 4       \* daily limits 1..MaxLimit are tried
MaxStarts == 3      \* number of process starts
MaxSize == 2        \* sizes 1..MaxSize are passed to the ledger directly
MaxCands == 2       \* number of provider recordings offered to the matcher
MaxReport == 2      \* number of manifest rows verified, report rows read
MaxZoomFiles == 2   \* number of files the provider lists for one recording

(* Program constants *)

NoDate == 0         \* last_run_utc: None
NoCode == 0 - 1     \* no exit status: no process has ended, or it was killed

\* the first instant is the start of day 1, the last the end of day MaxDay
MaxTick == TicksPerDay * (MaxDay + 1) - 1

FileIds == {"f1", "f2", "f3"}

\* file_size reported by the provider for each recording file
FileSize == [f \in FileIds |-> IF f = "f2" THEN 2 ELSE 1]

\* The manifest in the order of the CSV file: the Start Time of each row
\* (all different) and what the provider returns for the row: whether a
\* recording matches, and its files in the provider's order.
Manifest == <<
    [start |-> 3, match |-> TRUE,  files |-> << >>],
    [start |-> 1, match |-> TRUE,  files |-> <<"f1", "f2">>],
    [start |-> 4, match |-> TRUE,  files |-> <<"f3", "f1">>],
    [start |-> 2, match |-> FALSE, files |-> << >>] >>

\* the rows of m that start before row r
Earlier(m, r) == {i \in 1 .. Len(m) : m[i].start < r.start}

SortValues_AsRead(m) == m

\* line 641: df.sort_values(by="Start Time"), ascending
SortValues(m) ==
    [k \in 1 .. Len(m) |->
        CHOOSE r \in {m[i] : i \in 1 .. Len(m)} : Cardinality(Earlier(m, r)) = k - 1]

\* the rows in the order in which iterrows() yields them
Rows == SortValues(Manifest)

Days == 0 .. MaxDay

-----------------------------------------------------------------------------
(* The progress ledger: progress_log.py *)

EmptyMap == << >>

RECURSIVE SumOver(_, _)
SumOver(m, S) ==
    IF S = {} THEN 0
    ELSE LET k == CHOOSE x \in S : TRUE
         IN  m[k] + SumOver(m, S \ {k})

\* sum(mapping.values())
SumValues(m) == SumOver(m, DOMAIN m)

\* datetime.now(timezone.utc).isoformat() read back by
\* datetime.fromisoformat(...).date(): the calendar day of an instant
DateOf(ts) == ts \div TicksPerDay

CreateNewLog ==
    [ last_run_utc |-> NoDate,
      total_completed_recordings |-> EmptyMap,
      daily_completed_recordings |-> EmptyMap,
      run_counter |-> 0,
      total_completed_gb |-> 0 ]

\* json.dump of a mapping: the members of a JSON object, string key and number
JsonDumpMap(m) == {<<k, m[k]>> : k \in DOMAIN m}

JsonLoadMap_Sizeless(ms) == [k \in {p[1] : p \in ms} |-> 0]

\* json.load of a JSON object: a dict, the last member of a key wins
JsonLoadMap(ms) ==
    [k \in {p[1] : p \in ms} |-> (CHOOSE p \in ms : p[1] = k)[2]]

\* json.dump(self.log_data, f, indent=4): the text of the ledger file
JsonDump(lg) ==
    [ last_run_utc |-> lg.last_run_utc,
      total_completed_recordings |-> JsonDumpMap(lg.total_completed_recordings),
      daily_completed_recordings |-> JsonDumpMap(lg.daily_completed_recordings),
      run_counter |-> lg.run_counter,
      total_completed_gb |-> lg.total_completed_gb ]

\* json.load(f) of such a text
JsonLoad(txt) ==
    [ last_run_utc |-> txt.last_run_utc,
      total_completed_recordings |-> JsonLoadMap(txt.total_completed_recordings),
      daily_completed_recordings |-> JsonLoadMap(txt.daily_completed_recordings),
      run_counter |-> txt.run_counter,
      total_completed_gb |-> txt.total_completed_gb ]

\* the file before the first save
NoFile == [state |-> "missing", data |-> CreateNewLog]

\* a file that json.load cannot decode
CorruptFile == [state |-> "corrupt", data |-> CreateNewLog]

\* a file that json.load decodes to something that is not a dict (a list,
\* a number, null), or whose bytes are not text: setdefault raises
\* AttributeError, the read raises UnicodeDecodeError
BadShapeFile == [state |-> "badshape", data |-> CreateNewLog]

\* _load_log raises an exception that its except clause does not name
LoadRaises(fl) == fl.state = "badshape"

LoadLog_ResetsTotal(fl) ==
    IF fl.state = "ok"
    THEN [fl.data EXCEPT !.total_completed_recordings = EmptyMap]
    ELSE CreateNewLog

\* _load_log: the decoded object, or a new log when the file is missing
\* or raises JSONDecodeError
LoadLog(fl) == IF fl.state = "ok" THEN fl.data ELSE CreateNewLog

\* ProgressLog.__init__: load, then increment the run counter in memory
NewProgressLog(fl) ==
    [LoadLog(fl) EXCEPT !.run_counter = @ + 1]

SavedLog_KeepsTotal(lg, ts) == [lg EXCEPT !.last_run_utc = ts]

\* save(): stamp the time, recompute the total, write the whole object
SavedLog(lg, ts) ==
    [lg EXCEPT !.last_run_utc = ts,
               !.total_completed_gb = SumValues(lg.total_completed_recordings)]

\* lines 49-50: the file after the write; data is what json.load reads back
WrittenFile(lg) == [state |-> "ok", data |-> JsonLoad(JsonDump(lg))]

IsCompleted_Never(lg, f) == FALSE

\* a membership test on the wrong mapping
IsCompleted_Daily(lg, f) == f \in DOMAIN lg.daily_completed_recordings

IsCompleted(lg, f) == f \in DOMAIN lg.total_completed_recordings

\* an insertion that forgets the all-time mapping
Inserted_DailyOnly(lg, f, s) ==
    [lg EXCEPT !.daily_completed_recordings = (f :> s) @@ @]

\* the two insertions of log_completed
Inserted(lg, f, s) ==
    [lg EXCEPT !.total_completed_recordings = (f :> s) @@ @,
               !.daily_completed_recordings = (f :> s) @@ @]

\* a log_completed without the is_completed test
LogCompleted_NoGuard(lg, f, s, ts) == SavedLog(Inserted(lg, f, s), ts)

\* log_completed: the ledger in memory afterwards
LogCompleted(lg, f, s, ts) ==
    IF ~IsCompleted(lg, f) THEN SavedLog(Inserted(lg, f, s), ts) ELSE lg

\* log_completed: the ledger file afterwards
LogCompletedFile(fl, lg, f, s, ts) ==
    IF ~IsCompleted(lg, f) THEN WrittenFile(LogCompleted(lg, f, s, ts)) ELSE fl

GetBatchSize_Count(lg) == Cardinality(DOMAIN lg.daily_completed_recordings)

GetBatchSize(lg) == SumValues(lg.daily_completed_recordings)

GetLastRunDate(lg) ==
    IF lg.last_run_utc # NoDate THEN DateOf(lg.last_run_utc) ELSE NoDate

\* a reset that clears both mappings
ResetBatchSize_ClearsAll(lg, ts) ==
    SavedLog([lg EXCEPT !.daily_completed_recordings = EmptyMap,
                        !.total_completed_recordings = EmptyMap], ts)

\* a reset that leaves the same-day mapping as it is
ResetBatchSize_Keeps(lg, ts) == SavedLog(lg, ts)

\* reset_batch_size: the ledger in memory afterwards (it is also written)
ResetBatchSize(lg, ts) ==
    SavedLog([lg EXCEPT !.daily_completed_recordings = EmptyMap], ts)

-----------------------------------------------------------------------------
(* The migration loop: zoom_recording_downloader.py main() *)

NoEv == [op |-> "none", fid |-> "", usage |-> 0, size |-> 0]

Event(o, f, u, s) == [op |-> o, fid |-> f, usage |-> u, size |-> s]

\* the file of the current row at the current index
CurFile == Rows[rowIdx].files[fileIdx]

\* file_size_gb of the file being examined
CurSize == FileSize[CurFile]

\* a day check that resets on every run after the first
NeedsReset_Always(last, today) == last # NoDate

\* a day check that also resets on the day of the last save
NeedsReset_SameDay(last, today) == last # NoDate /\ last <= today

\* line 658: last_run_date and last_run_date < today_utc
NeedsReset(last, today) == last # NoDate /\ last < today

\* an admission test that refuses a file that fills the limit exactly
WouldExceed_AtLimit(usage, size, lim) == usage + size >= lim

\* line 724: progress.get_batch_size() + file_size_gb > args.batch_size_gb
WouldExceed(usage, size, lim) == usage + size > lim

\* no helper function has been called
NoCall == [fn |-> "none"]

\* no process is running; nothing has been transferred or recorded
InitRun ==
    /\ log = CreateNewLog
    /\ pc = "idle"
    /\ now = TicksPerDay
    /\ dryRun = FALSE
    /\ rowIdx = 0
    /\ fileIdx = 0
    /\ uploadOk = FALSE
    /\ exitCode = NoCode
    /\ starts = 0
    /\ uploads = [f \in FileIds |-> 0]
    /\ recordedOn = [d \in Days |-> 0]
    /\ startDay = NoDate
    /\ prevDay = NoDate
    /\ ev = NoEv

\* the command line and the manifest of the migration
InitProcess ==
    /\ call = NoCall
    /\ limit \in 1 .. MaxLimit
    /\ nat \in BOOLEAN
    /\ InitRun

\* the first start: no ledger file has been written yet
Init ==
    /\ file = NoFile
    /\ InitProcess

\* the process has ended: its memory is gone
Ended(code) ==
    /\ pc' = "idle"
    /\ log' = CreateNewLog
    /\ dryRun' = FALSE
    /\ rowIdx' = 0
    /\ fileIdx' = 0
    /\ uploadOk' = FALSE
    /\ exitCode' = code

\* the UTC clock advances; a run may straddle midnight
Tick ==
    /\ now < MaxTick
    /\ now' = now + 1
    /\ UNCHANGED <<file, log, pc, limit, nat, call, dryRun, rowIdx, fileIdx, uploadOk,
                   exitCode, starts, uploads, recordedOn, startDay, prevDay, ev>>

StartRun_Saves(dry) ==
    /\ pc = "idle"
    /\ starts < MaxStarts
    /\ ~LoadRaises(file)
    /\ log' = NewProgressLog(file)
    /\ file' = WrittenFile(SavedLog(NewProgressLog(file), now))
    /\ pc' = "setup"
    /\ dryRun' = dry
    /\ starts' = starts + 1
    /\ prevDay' = startDay
    /\ startDay' = DateOf(now)
    /\ exitCode' = NoCode
    /\ ev' = Event("start", "", 0, 0)
    /\ UNCHANGED <<now, limit, nat, call, rowIdx, fileIdx, uploadOk, uploads, recordedOn>>

\* line 596: progress = ProgressLog(args.log_file)
StartRun(dry) ==
    /\ pc = "idle"
    /\ starts < MaxStarts
    /\ ~LoadRaises(file)
    /\ log' = NewProgressLog(file)
    /\ pc' = "setup"
    /\ dryRun' = dry
    /\ starts' = starts + 1
    /\ prevDay' = startDay
    /\ startDay' = DateOf(now)
    /\ exitCode' = NoCode
    /\ ev' = Event("start", "", 0, 0)
    /\ UNCHANGED <<file, now, limit, nat, call, rowIdx, fileIdx, uploadOk, uploads, recordedOn>>

SetupFail_Saves ==
    /\ pc = "setup"
    /\ file' = WrittenFile(SavedLog(log, now))
    /\ Ended(1)
    /\ ev' = Event("setup_fail", "", 0, 0)
    /\ UNCHANGED <<now, limit, nat, call, starts, uploads, recordedOn, startDay, prevDay>>

\* lines 598-648: token, Drive setup or manifest loading fails: system.exit(1)
SetupFail ==
    /\ pc = "setup"
    /\ Ended(1)
    /\ ev' = Event("setup_fail", "", 0, 0)
    /\ UNCHANGED <<file, now, limit, nat, call, starts, uploads, recordedOn, startDay, prevDay>>

\* lines 598-648: setup succeeds
SetupOk ==
    /\ pc = "setup"
    /\ pc' = "daycheck"
    /\ ev' = Event("setup_ok", "", 0, 0)
    /\ UNCHANGED <<file, log, now, limit, nat, call, dryRun, rowIdx, fileIdx, uploadOk,
                   exitCode, starts, uploads, recordedOn, startDay, prevDay>>

\* lines 652-663: the day check, once per run, before the row loop
DayCheck ==
    /\ pc = "daycheck"
    /\ IF NeedsReset(GetLastRunDate(log), DateOf(now))
       THEN /\ log' = ResetBatchSize(log, now)
            /\ file' = WrittenFile(log')
            /\ ev' = Event("reset", "", GetBatchSize(log), 0)
       ELSE /\ UNCHANGED <<log, file>>
            /\ ev' = Event("no_reset", "", GetBatchSize(log), 0)
    /\ pc' = "row"
    /\ rowIdx' = 1
    /\ UNCHANGED <<now, limit, nat, call, dryRun, fileIdx, uploadOk, exitCode, starts,
                   uploads, recordedOn, startDay, prevDay>>

\* what a step of the row loop leaves alone
RowFrame ==
    UNCHANGED <<file, log, now, limit, nat, call, dryRun, uploadOk, exitCode, starts,
                uploads, recordedOn, startDay, prevDay>>

\* lines 666-670, 796-799: the Start Time of the row is NaT (it did not
\* parse, and NaT sorts last); strftime raises ValueError before the inner
\* try, the final save runs and the exception leaves main()
RowAbort ==
    /\ pc = "row"
    /\ rowIdx > Len(Rows)
    /\ nat
    /\ file' = WrittenFile(SavedLog(log, now))
    /\ Ended(1)
    /\ ev' = Event("row_abort", "", 0, 0)
    /\ UNCHANGED <<now, limit, nat, call, starts, uploads, recordedOn, startDay, prevDay>>

\* line 666: the manifest is exhausted
LoopEnd ==
    /\ pc = "row"
    /\ rowIdx > Len(Rows)
    /\ ~nat
    /\ pc' = "final"
    /\ ev' = Event("exhausted", "", 0, 0)
    /\ UNCHANGED <<rowIdx, fileIdx>>
    /\ RowFrame

RowDryRun_Enters ==
    /\ pc = "row"
    /\ rowIdx <= Len(Rows)
    /\ dryRun
    /\ pc' = "file"
    /\ fileIdx' = 1
    /\ ev' = Event("dry_row", "", 0, 0)
    /\ UNCHANGED rowIdx
    /\ RowFrame

\* lines 672-676: dry run, the row is only printed
RowDryRun ==
    /\ pc = "row"
    /\ rowIdx <= Len(Rows)
    /\ dryRun
    /\ rowIdx' = rowIdx + 1
    /\ ev' = Event("dry_row", "", 0, 0)
    /\ UNCHANGED <<pc, fileIdx>>
    /\ RowFrame

\* lines 679-684, 785-792: listing the host's recordings raises
RowError ==
    /\ pc = "row"
    /\ rowIdx <= Len(Rows)
    /\ ~dryRun
    /\ rowIdx' = rowIdx + 1
    /\ ev' = Event("row_error", "", 0, 0)
    /\ UNCHANGED <<pc, fileIdx>>
    /\ RowFrame

\* lines 425-430, 194-197, 782-784, 794-795: the listing answers 401 and the
\* token refresh finds no access_token: system.exit(1) raises SystemExit,
\* which the row handler re-raises and the outer handler swallows
RowTokenFail ==
    /\ pc = "row"
    /\ rowIdx <= Len(Rows)
    /\ ~dryRun
    /\ pc' = "final"
    /\ ev' = Event("token_fail", "", 0, 0)
    /\ UNCHANGED <<rowIdx, fileIdx>>
    /\ RowFrame

\* lines 686-690: no matching recording
RowNoMatch ==
    /\ pc = "row"
    /\ rowIdx <= Len(Rows)
    /\ ~dryRun
    /\ ~Rows[rowIdx].match
    /\ rowIdx' = rowIdx + 1
    /\ ev' = Event("no_match", "", 0, 0)
    /\ UNCHANGED <<pc, fileIdx>>
    /\ RowFrame

RowNoFiles_Aborts ==
    /\ pc = "row"
    /\ rowIdx <= Len(Rows)
    /\ ~dryRun
    /\ Rows[rowIdx].match
    /\ Rows[rowIdx].files = << >>
    /\ pc' = "final"
    /\ ev' = Event("no_files", "", 0, 0)
    /\ UNCHANGED <<rowIdx, fileIdx>>
    /\ RowFrame

\* lines 693, 248-250, 785-792: get_downloads raises on a recording without files
RowNoFiles ==
    /\ pc = "row"
    /\ rowIdx <= Len(Rows)
    /\ ~dryRun
    /\ Rows[rowIdx].match
    /\ Rows[rowIdx].files = << >>
    /\ rowIdx' = rowIdx + 1
    /\ ev' = Event("no_files", "", 0, 0)
    /\ UNCHANGED <<pc, fileIdx>>
    /\ RowFrame

\* lines 693-702: the files of the matched recording are enumerated
RowEnter ==
    /\ pc = "row"
    /\ rowIdx <= Len(Rows)
    /\ ~dryRun
    /\ Rows[rowIdx].match
    /\ Rows[rowIdx].files # << >>
    /\ pc' = "file"
    /\ fileIdx' = 1
    /\ ev' = Event("enter", "", 0, 0)
    /\ UNCHANGED rowIdx
    /\ RowFrame

\* line 696: the files of the row are exhausted
FilesDone ==
    /\ pc = "file"
    /\ fileIdx > Len(Rows[rowIdx].files)
    /\ pc' = "row"
    /\ rowIdx' = rowIdx + 1
    /\ ev' = Event("row_done", "", 0, 0)
    /\ UNCHANGED fileIdx
    /\ RowFrame

\* lines 704-706: a completed file is skipped
FileSkip ==
    /\ pc = "file"
    /\ fileIdx <= Len(Rows[rowIdx].files)
    /\ IsCompleted(log, CurFile)
    /\ fileIdx' = fileIdx + 1
    /\ ev' = Event("skip", CurFile, GetBatchSize(log), CurSize)
    /\ UNCHANGED <<pc, rowIdx>>
    /\ RowFrame

\* a refusal that skips the file and goes on with the next one
BudgetHalt_Skip ==
    /\ pc = "file"
    /\ fileIdx <= Len(Rows[rowIdx].files)
    /\ ~IsCompleted(log, CurFile)
    /\ WouldExceed(GetBatchSize(log), CurSize, limit)
    /\ fileIdx' = fileIdx + 1
    /\ ev' = Event("refuse", CurFile, GetBatchSize(log), CurSize)
    /\ UNCHANGED <<pc, rowIdx>>
    /\ RowFrame

\* lines 724-734, 782-784, 794-795: the batch limit is reached,
\* SystemExit leaves both loops
BudgetHalt ==
    /\ pc = "file"
    /\ fileIdx <= Len(Rows[rowIdx].files)
    /\ ~IsCompleted(log, CurFile)
    /\ WouldExceed(GetBatchSize(log), CurSize, limit)
    /\ pc' = "final"
    /\ ev' = Event("refuse", CurFile, GetBatchSize(log), CurSize)
    /\ UNCHANGED <<rowIdx, fileIdx>>
    /\ RowFrame

\* lines 724, 736-755: the file is admitted
FileAdmit ==
    /\ pc = "file"
    /\ fileIdx <= Len(Rows[rowIdx].files)
    /\ ~IsCompleted(log, CurFile)
    /\ ~WouldExceed(GetBatchSize(log), CurSize, limit)
    /\ pc' = "download"
    /\ ev' = Event("admit", CurFile, GetBatchSize(log), CurSize)
    /\ UNCHANGED <<rowIdx, fileIdx>>
    /\ RowFrame

\* lines 757-762, 326-359: download_recording returns True
DownloadOk ==
    /\ pc = "download"
    /\ pc' = "upload"
    /\ ev' = Event("download_ok", CurFile, 0, 0)
    /\ UNCHANGED <<rowIdx, fileIdx>>
    /\ RowFrame

\* lines 757, 353-359: download_recording returns False
DownloadFail ==
    /\ pc = "download"
    /\ pc' = "file"
    /\ fileIdx' = fileIdx + 1
    /\ ev' = Event("download_fail", CurFile, 0, 0)
    /\ UNCHANGED rowIdx
    /\ RowFrame

\* lines 743, 334, 785-792: format_filename or requests.get raises
DownloadRaise ==
    /\ pc = "download"
    /\ pc' = "row"
    /\ rowIdx' = rowIdx + 1
    /\ ev' = Event("download_raise", CurFile, 0, 0)
    /\ UNCHANGED fileIdx
    /\ RowFrame

\* lines 763-771, google_drive_client.py 226-283: upload_file returns
\* True or False
Upload(ok) ==
    /\ pc = "upload"
    /\ pc' = "record"
    /\ uploadOk' = ok
    /\ uploads' = IF ok THEN [uploads EXCEPT ![CurFile] = @ + 1] ELSE uploads
    /\ ev' = Event(IF ok THEN "upload_ok" ELSE "upload_fail", CurFile, 0, 0)
    /\ UNCHANGED <<file, log, now, limit, nat, call, dryRun, rowIdx, fileIdx, exitCode,
                   starts, recordedOn, startDay, prevDay>>

\* lines 773-774: progress.log_completed(recording_file_id, file_size_gb)
Record ==
    /\ pc = "record"
    /\ log' = LogCompleted(log, CurFile, CurSize, now)
    /\ file' = LogCompletedFile(file, log, CurFile, CurSize, now)
    /\ recordedOn' = IF IsCompleted(log, CurFile) THEN recordedOn
                     ELSE [recordedOn EXCEPT ![DateOf(now)] = @ + CurSize]
    /\ pc' = "file"
    /\ fileIdx' = fileIdx + 1
    /\ uploadOk' = FALSE
    /\ ev' = Event("record", CurFile, GetBatchSize(log), CurSize)
    /\ UNCHANGED <<now, limit, nat, call, dryRun, rowIdx, exitCode, starts, uploads,
                   startDay, prevDay>>

FinalSave_Skipped ==
    /\ pc = "final"
    /\ Ended(0)
    /\ ev' = Event("final_save", IF ev.op = "refuse" THEN ev.fid ELSE "", 0, 0)
    /\ UNCHANGED <<file, now, limit, nat, call, starts, uploads, recordedOn, startDay, prevDay>>

FinalSave_Reraises ==
    /\ pc = "final"
    /\ file' = WrittenFile(SavedLog(log, now))
    /\ Ended(IF ev.op = "refuse" THEN 1 ELSE 0)
    /\ ev' = Event("final_save", IF ev.op = "refuse" THEN ev.fid ELSE "", 0, 0)
    /\ UNCHANGED <<now, limit, nat, call, starts, uploads, recordedOn, startDay, prevDay>>

\* lines 796-799: the final save, then the process ends normally
FinalSave ==
    /\ pc = "final"
    /\ file' = WrittenFile(SavedLog(log, now))
    /\ Ended(0)
    /\ ev' = Event("final_save", IF ev.op = "refuse" THEN ev.fid ELSE "", 0, 0)
    /\ UNCHANGED <<now, limit, nat, call, starts, uploads, recordedOn, startDay, prevDay>>

Next ==
    \/ Tick
    \/ \E dry \in BOOLEAN : StartRun(dry)
    \/ SetupFail
    \/ SetupOk
    \/ DayCheck
    \/ RowAbort
    \/ LoopEnd
    \/ RowDryRun
    \/ RowError
    \/ RowTokenFail
    \/ RowNoMatch
    \/ RowNoFiles
    \/ RowEnter
    \/ FilesDone
    \/ FileSkip
    \/ BudgetHalt
    \/ FileAdmit
    \/ DownloadOk
    \/ DownloadFail
    \/ DownloadRaise
    \/ \E ok \in BOOLEAN : Upload(ok)
    \/ Record
    \/ FinalSave

Spec == Init /\ [][Next]_vars

-----------------------------------------------------------------------------
(* The runs in which nothing fails: setup succeeds, every listing, download *)
(* and upload succeeds, every Start Time parses                             *)

CleanInit ==
    /\ file = NoFile
    /\ call = NoCall
    /\ limit \in 1 .. MaxLimit
    /\ nat = FALSE
    /\ InitRun

CleanNext ==
    \/ Tick
    \/ StartRun(FALSE)
    \/ SetupOk
    \/ DayCheck
    \/ LoopEnd
    \/ RowNoMatch
    \/ RowNoFiles
    \/ RowEnter
    \/ FilesDone
    \/ FileSkip
    \/ BudgetHalt
    \/ FileAdmit
    \/ DownloadOk
    \/ Upload(TRUE)
    \/ Record
    \/ FinalSave

CleanSpec == CleanInit /\ [][CleanNext]_vars

\* a started process goes on until it ends: every step of CleanNext but
\* the clock and the start of a process, which the operator decides
CleanRun ==
    \/ SetupOk
    \/ DayCheck
    \/ LoopEnd
    \/ RowNoMatch
    \/ RowNoFiles
    \/ RowEnter
    \/ FilesDone
    \/ FileSkip
    \/ BudgetHalt
    \/ FileAdmit
    \/ DownloadOk
    \/ Upload(TRUE)
    \/ Record
    \/ FinalSave

LiveSpec == CleanInit /\ [][CleanNext]_vars /\ WF_vars(CleanRun)

-----------------------------------------------------------------------------
(* The same runs, with a process that may be killed at any point *)

\* the process is killed between two writes of the ledger file
Crash ==
    /\ pc # "idle"
    /\ Ended(NoCode)
    /\ ev' = Event("crash", "", 0, 0)
    /\ UNCHANGED <<file, now, limit, nat, call, starts, uploads, recordedOn, startDay, prevDay>>

\* save() is the next thing the process does
SaveIsNext ==
    \/ pc = "final"
    \/ pc = "row" /\ rowIdx > Len(Rows) /\ nat
    \/ pc = "daycheck" /\ NeedsReset(GetLastRunDate(log), DateOf(now))
    \/ pc = "record" /\ ~IsCompleted(log, CurFile)

\* progress_log.py lines 49-50: the process is killed after open(..., "w")
\* has truncated the file and before json.dump has written it all
CrashInSave ==
    /\ SaveIsNext
    /\ file' = CorruptFile
    /\ Ended(NoCode)
    /\ ev' = Event("crash_in_save", "", 0, 0)
    /\ UNCHANGED <<now, limit, nat, call, starts, uploads, recordedOn, startDay, prevDay>>

NextCrash ==
    \/ Next
    \/ Crash
    \/ CrashInSave

\* kills are explored under one daily limit, which the manifest exceeds
CrashInit ==
    /\ Init
    /\ limit = MaxLimit - 1

SpecCrash == CrashInit /\ [][NextCrash]_vars

\* the same kills under a smaller daily limit
KillInit ==
    /\ Init
    /\ limit = MaxLimit - 2

SpecKill == KillInit /\ [][NextCrash]_vars

-----------------------------------------------------------------------------
(* The same runs, with SIGINT delivered to the process at any point:       *)
(* handle_graceful_shutdown raises SystemExit(0) where the process stands  *)

\* lines 374-379, 794-799: SIGINT inside the try block of the row loop, not
\* during a write of the ledger: the outer handler catches SystemExit and
\* the finally clause goes on to the final save
Shutdown ==
    /\ pc \in {"row", "file", "download", "upload", "record"}
    /\ pc' = "final"
    /\ ev' = Event("sigint", "", 0, 0)
    /\ UNCHANGED <<file, log, now, limit, nat, call, dryRun, rowIdx, fileIdx,
                   uploadOk, exitCode, starts, uploads, recordedOn, startDay,
                   prevDay>>

\* progress_log.py lines 49-50, 64-75: SIGINT while log_completed writes
\* the ledger: the file is recorded in memory, the ledger file is truncated
\* or partly written, and the finally clause goes on to the final save
ShutdownInRecord ==
    /\ pc = "record"
    /\ ~IsCompleted(log, CurFile)
    /\ log' = LogCompleted(log, CurFile, CurSize, now)
    /\ file' = CorruptFile
    /\ recordedOn' = [recordedOn EXCEPT ![DateOf(now)] = @ + CurSize]
    /\ pc' = "final"
    /\ ev' = Event("sigint_in_record", CurFile, GetBatchSize(log), CurSize)
    /\ UNCHANGED <<now, limit, nat, call, dryRun, rowIdx, fileIdx, uploadOk,
                   exitCode, starts, uploads, startDay, prevDay>>

\* lines 598-663: SIGINT before the try block, not during a write of the
\* ledger: SystemExit(0) leaves main()
ShutdownOutside ==
    /\ pc \in {"setup", "daycheck"}
    /\ Ended(0)
    /\ ev' = Event("sigint_outside", "", 0, 0)
    /\ UNCHANGED <<file, now, limit, nat, call, starts, uploads, recordedOn,
                   startDay, prevDay>>

\* lines 663, 796-799, progress_log.py lines 49-50: SIGINT while the final
\* save or the day reset writes the ledger: no handler and no finally
\* clause is left around the write, and SystemExit(0) leaves main()
ShutdownInSave ==
    /\ SaveIsNext
    /\ pc # "record"
    /\ file' = CorruptFile
    /\ Ended(0)
    /\ ev' = Event("sigint_in_save", "", 0, 0)
    /\ UNCHANGED <<now, limit, nat, call, starts, uploads, recordedOn,
                   startDay, prevDay>>

NextSigint ==
    \/ Next
    \/ Shutdown
    \/ ShutdownInRecord
    \/ ShutdownOutside
    \/ ShutdownInSave

\* signals are explored under one daily limit, which the manifest exceeds
SigintInit ==
    /\ Init
    /\ limit = MaxLimit - 2

SpecSigint == SigintInit /\ [][NextSigint]_vars

-----------------------------------------------------------------------------
(* The ledger alone: any sequence of calls on a ProgressLog object *)

LedgerFrame ==
    UNCHANGED <<limit, nat, call, dryRun, rowIdx, fileIdx, uploadOk, exitCode, starts,
                uploads, recordedOn, startDay, prevDay>>

LedgerInit ==
    /\ Init
    /\ limit = MaxLimit
    /\ nat = FALSE

\* ProgressLog(log_file) in a new process
L_Load ==
    /\ pc = "idle"
    /\ ~LoadRaises(file)
    /\ LoadLog(file).run_counter < MaxStarts
    /\ log' = NewProgressLog(file)
    /\ pc' = "ledger"
    /\ ev' = Event("load", "", 0, 0)
    /\ UNCHANGED <<file, now>>
    /\ LedgerFrame

\* log_completed(f, s)
L_LogCompleted(f, s) ==
    /\ pc = "ledger"
    /\ log' = LogCompleted(log, f, s, now)
    /\ file' = LogCompletedFile(file, log, f, s, now)
    /\ ev' = Event("log_completed", f, SumValues(log.total_completed_recordings), s)
    /\ UNCHANGED <<pc, now>>
    /\ LedgerFrame

\* reset_batch_size()
L_Reset ==
    /\ pc = "ledger"
    /\ log' = ResetBatchSize(log, now)
    /\ file' = WrittenFile(log')
    /\ ev' = Event("reset", "", GetBatchSize(log), 0)
    /\ UNCHANGED <<pc, now>>
    /\ LedgerFrame

\* save()
L_Save ==
    /\ pc = "ledger"
    /\ log' = SavedLog(log, now)
    /\ file' = WrittenFile(log')
    /\ ev' = Event("save", "", 0, 0)
    /\ UNCHANGED <<pc, now>>
    /\ LedgerFrame

\* the process holding the object exits
L_Exit ==
    /\ pc = "ledger"
    /\ pc' = "idle"
    /\ log' = CreateNewLog
    /\ ev' = Event("exit", "", 0, 0)
    /\ UNCHANGED <<file, now>>
    /\ LedgerFrame

L_Tick ==
    /\ now < MaxTick
    /\ now' = now + 1
    /\ ev' = Event("tick", "", 0, 0)
    /\ UNCHANGED <<file, log, pc>>
    /\ LedgerFrame

LedgerNext ==
    \/ L_Load
    \/ \E f \in FileIds, s \in 1 .. MaxSize : L_LogCompleted(f, s)
    \/ L_Reset
    \/ L_Save
    \/ L_Exit
    \/ L_Tick

LedgerSpec == LedgerInit /\ [][LedgerNext]_vars

-----------------------------------------------------------------------------
(* The ledger alone, started on any file that may be found at log_file *)

\* the files a first start may find: none, undecodable text, a foreign file
FoundFiles == {NoFile, CorruptFile, BadShapeFile}

LoadInit ==
    /\ file \in FoundFiles
    /\ InitProcess
    /\ limit = MaxLimit
    /\ nat = FALSE

\* ProgressLog(log_file) raises: the process ends with a traceback
L_LoadAbort ==
    /\ pc = "idle"
    /\ LoadRaises(file)
    /\ exitCode' = 1
    /\ ev' = Event("load_abort", "", 0, 0)
    /\ UNCHANGED <<file, log, pc, now, limit, nat, call, dryRun, rowIdx, fileIdx,
                   uploadOk, starts, uploads, recordedOn, startDay, prevDay>>

LoadNext ==
    \/ LedgerNext
    \/ L_LoadAbort

LoadSpec == LoadInit /\ [][LoadNext]_vars

-----------------------------------------------------------------------------
(* The ledger alone, started on a file written earlier whose stored total *)
(* may be anything                                                         *)

\* the all-time mappings of the stored files
StoredMaps == {EmptyMap, "f1" :> 1, ("f1" :> 1) @@ ("f2" :> 2)}

\* the stored values of total_completed_gb, right and wrong ones
StoredTotals == 0 .. 3

\* a ledger file of an earlier run, with this mapping and this total
StoredFile(m, t) ==
    [state |-> "ok",
     data |-> [CreateNewLog EXCEPT !.last_run_utc = TicksPerDay,
                                   !.total_completed_recordings = m,
                                   !.daily_completed_recordings = m,
                                   !.run_counter = 1,
                                   !.total_completed_gb = t]]

\* call keeps the total that was in the file at first
StoredInit ==
    /\ \E m \in StoredMaps, t \in StoredTotals :
          /\ file = StoredFile(m, t)
          /\ call = [fn |-> "stored", total |-> t]
    /\ limit = MaxLimit
    /\ nat = FALSE
    /\ InitRun

StoredSpec == StoredInit /\ [][LedgerNext]_vars

-----------------------------------------------------------------------------
(* The helper functions, each called on its own with arguments drawn from *)
(* small sets; the migration does not run meanwhile                        *)

\* the migration is not running and has never run
NoMigration ==
    /\ file = NoFile
    /\ limit = MaxLimit
    /\ nat = FALSE
    /\ InitRun

HelperFrame ==
    UNCHANGED <<file, log, pc, now, limit, nat, dryRun, rowIdx, fileIdx,
                uploadOk, exitCode, starts, uploads, recordedOn, startDay,
                prevDay, ev>>

-----------------------------------------------------------------------------
(* find_matching_recording; times are whole minutes *)

\* line 510: timedelta(minutes=5)
Tolerance == 5

\* a Start Time UTC that is NaT
NaT == 0 - 1

\* the start times tried: equal, close, at the tolerance, beyond it
MatchTimes == {0, 1, Tolerance, Tolerance + 1}

\* topics are strings, here sequences of characters
Quote == "'"
Dash == "-"
MatchTopics == {<<Quote, Dash, "a">>, <<Dash, "a">>, <<Quote, "a">>, << >>}

\* a recording of the provider's listing
Recordings == [topic : MatchTopics, start : MatchTimes]

\* a manifest row, as far as the matcher reads it
MatchRows == [topic : MatchTopics, start : MatchTimes \cup {NaT}]

\* return None
None == [topic |-> << >>, start |-> NaT]

\* the listings of at most MaxCands recordings
Listings(n) == UNION {[1 .. k -> Recordings] : k \in 0 .. n}

Abs(x) == IF x < 0 THEN 0 - x ELSE x

\* lines 495-502: a topic that starts with '- loses its first character
NormalizedTopic(t) ==
    IF Len(t) >= 2 /\ t[1] = Quote /\ t[2] = Dash THEN Tail(t) ELSE t

IsMatch_AtTolerance(topic, start, rec) ==
    rec.topic = topic /\ Abs(start - rec.start) <= Tolerance

\* lines 505-510: the same topic, and start times less than 5 minutes apart
IsMatch(topic, start, rec) ==
    rec.topic = topic /\ Abs(start - rec.start) < Tolerance

\* lines 504-516: the loop over user_recordings, from index i on
RECURSIVE FirstMatch(_, _, _, _)
FirstMatch(topic, start, recs, i) ==
    IF i > Len(recs) THEN None
    ELSE IF IsMatch(topic, start, recs[i]) THEN recs[i]
    ELSE FirstMatch(topic, start, recs, i + 1)

\* lines 483-516
FindMatchingRecording(row, recs) ==
    IF row.start = NaT THEN None
    ELSE FirstMatch(NormalizedTopic(row.topic), row.start, recs, 1)

MatchInit ==
    /\ NoMigration
    /\ \E row \in MatchRows, recs \in Listings(MaxCands) :
          call = [fn |-> "match", row |-> row, recs |-> recs,
                  done |-> FALSE, result |-> None]

\* find_matching_recording(row, user_recordings) returns
Match ==
    /\ call.fn = "match"
    /\ ~call.done
    /\ call' = [call EXCEPT !.done = TRUE,
                            !.result = FindMatchingRecording(call.row, call.recs)]
    /\ HelperFrame

MatchNext ==
    \/ Match

MatchSpec == MatchInit /\ [][MatchNext]_vars

-----------------------------------------------------------------------------
(* The verification pass: verify_migration.py main *)

\* google_drive_client.py 39-333: the methods GoogleDriveClient defines;
\* find_file, which line 113 of verify_migration.py calls, is not one of them
DriveMethods == {"authenticate", "_handle_upload_with_refresh", "create_folder",
                 "navigate_folders", "upload_file", "initialize_root_folder",
                 "test_api_connection"}

\* lines 129-130: the counts of a row whose check raised
NoCount == 0 - 1

\* what the provider and the destination hold for one manifest row: the
\* listing raises or answers, a recording matches or not, the number of its
\* files and the number of those present at the destination
VerifyInputs ==
    {r \in [listing : {"ok", "raises"}, match : BOOLEAN,
            zoom : 0 .. MaxZoomFiles, drive : 0 .. MaxZoomFiles] :
        /\ r.drive <= r.zoom
        /\ (r.listing = "raises" \/ ~r.match) => r.zoom = 0}

\* lines 126-130: the report row of a check that raised
ErrorRow == [status |-> "ERROR", zoom |-> NoCount, drive |-> NoCount]

\* lines 80-132: the report row of one manifest row
VerifyRow(r) ==
    IF r.listing = "raises" THEN ErrorRow
    ELSE IF ~r.match
    THEN [status |-> "NO_MATCH_ON_ZOOM", zoom |-> 0, drive |-> 0]
    ELSE IF r.zoom = 0
    THEN [status |-> "NO_FILES_ON_ZOOM", zoom |-> 0, drive |-> 0]
    ELSE IF "find_file" \notin DriveMethods THEN ErrorRow
    ELSE [status |-> IF r.zoom = r.drive THEN "COMPLETE" ELSE "INCOMPLETE",
          zoom |-> r.zoom, drive |-> r.drive]

VerifyInit ==
    /\ NoMigration
    /\ \E n \in 0 .. MaxReport : \E rows \in [1 .. n -> VerifyInputs] :
          call = [fn |-> "verify", rows |-> rows, report |-> << >>,
                  saved |-> FALSE]

\* lines 77-132: one iteration of the loop
VerifyStep ==
    /\ call.fn = "verify"
    /\ Len(call.report) < Len(call.rows)
    /\ call' = [call EXCEPT
                  !.report = Append(@, VerifyRow(call.rows[Len(call.report) + 1]))]
    /\ HelperFrame

\* lines 134-140: the report is written
VerifySave ==
    /\ call.fn = "verify"
    /\ Len(call.report) = Len(call.rows)
    /\ ~call.saved
    /\ call' = [call EXCEPT !.saved = TRUE]
    /\ HelperFrame

VerifyNext ==
    \/ VerifyStep
    \/ VerifySave

VerifySpec == VerifyInit /\ [][VerifyNext]_vars

-----------------------------------------------------------------------------
(* The deletion pass: delete_from_zoom.py *)

\* the values of verification_status in a report
Statuses == {"COMPLETE", "INCOMPLETE", "NO_FILES_ON_ZOOM", "NO_MATCH_ON_ZOOM",
             "ERROR"}

\* a row of the verification report, as far as the pass reads it; the
\* meeting uuid may be missing
ReportRows == [status : Statuses, uuid : {"u", ""}]

\* what the operator may type at the prompt of lines 105-109
Typed == {"DELETE", "delete", ""}

\* how the provider may answer a DELETE request: 204, 404, another HTTP
\* error, or no answer at all (the request raises a connection error)
DeleteAnswers == {"204", "404", "500", "raises"}

Eligible_NotFailed(r) == r.status # "ERROR" /\ r.status # "NO_MATCH_ON_ZOOM"

\* line 84: df["verification_status"] == "COMPLETE"
Eligible(r) == r.status = "COMPLETE"

\* line 84: the indices of the report rows that are kept, in order
ToDelete(report) ==
    SelectSeq([i \in 1 .. Len(report) |-> i], LAMBDA i : Eligible(report[i]))

Confirmed_Lenient(dry, force, word) == dry \/ force \/ word # ""

\* lines 104-112: the pass goes on to the loop
Confirmed(dry, force, word) == dry \/ force \/ word = "DELETE"

\* lines 16-48: the status that delete_meeting_recordings returns
DeleteStatus(uuid, answer) ==
    IF uuid = "" THEN "SKIPPED_NO_UUID"
    ELSE IF answer = "204" THEN "DELETED"
    ELSE IF answer = "404" THEN "ALREADY_DELETED_OR_NOT_FOUND"
    ELSE "ERROR_500"

DeleteInit ==
    /\ NoMigration
    /\ \E n \in 0 .. MaxReport : \E report \in [1 .. n -> ReportRows] :
       \E dry \in BOOLEAN, force \in BOOLEAN :
          call = [fn |-> "delete", report |-> report, dry |-> dry,
                  force |-> force, typed |-> "", at |-> "load",
                  rows |-> << >>, sent |-> << >>, out |-> << >>,
                  saved |-> FALSE, code |-> NoCode]

\* lines 80-101: the report is read and filtered; nothing to delete: exit 0
DeleteLoad ==
    /\ call.fn = "delete"
    /\ call.at = "load"
    /\ LET rows == ToDelete(call.report) IN
       call' = IF rows = << >>
               THEN [call EXCEPT !.at = "exit", !.code = 0]
               ELSE [call EXCEPT !.at = "confirm", !.rows = rows]
    /\ HelperFrame

\* lines 104-115: the prompt, unless --dry-run or --force was given
DeleteConfirm(word) ==
    /\ call.fn = "delete"
    /\ call.at = "confirm"
    /\ (call.dry \/ call.force) => word = ""
    /\ call' = IF Confirmed(call.dry, call.force, word)
               THEN [call EXCEPT !.at = "token", !.typed = word]
               ELSE [call EXCEPT !.at = "exit", !.typed = word, !.code = 0]
    /\ HelperFrame

\* line 118: load_access_token() returns, or finds no token: exit 1
DeleteToken(ok) ==
    /\ call.fn = "delete"
    /\ call.at = "token"
    /\ call' = IF ok THEN [call EXCEPT !.at = "loop"]
               ELSE [call EXCEPT !.at = "exit", !.code = 1]
    /\ HelperFrame

\* lines 121-129: one iteration of the loop; sent lists the report rows for
\* which a DELETE request went to the provider
DeleteStep(answer) ==
    /\ call.fn = "delete"
    /\ call.at = "loop"
    /\ Len(call.out) < Len(call.rows)
    /\ LET i == call.rows[Len(call.out) + 1]
           uuid == call.report[i].uuid IN
       IF call.dry
       THEN call' = [call EXCEPT !.out = Append(@, "DRY_RUN_SKIPPED")]
       ELSE IF uuid = ""
       THEN call' = [call EXCEPT !.out = Append(@, DeleteStatus(uuid, answer))]
       ELSE IF answer = "raises"
       THEN call' = [call EXCEPT !.sent = Append(@, i), !.at = "exit", !.code = 1]
       ELSE call' = [call EXCEPT !.sent = Append(@, i),
                                 !.out = Append(@, DeleteStatus(uuid, answer))]
    /\ HelperFrame

\* lines 131-138: the deletion report is written
DeleteSave ==
    /\ call.fn = "delete"
    /\ call.at = "loop"
    /\ Len(call.out) = Len(call.rows)
    /\ call' = [call EXCEPT !.at = "exit", !.saved = TRUE, !.code = 0]
    /\ HelperFrame

DeleteNext ==
    \/ DeleteLoad
    \/ \E word \in Typed : DeleteConfirm(word)
    \/ \E ok \in BOOLEAN : DeleteToken(ok)
    \/ \E answer \in DeleteAnswers : DeleteStep(answer)
    \/ DeleteSave

DeleteSpec == DeleteInit /\ [][DeleteNext]_vars

-----------------------------------------------------------------------------
(* The migration and the deletion pass, both with --dry-run where the       *)
(* operator asks for it; the two programs never run at the same time        *)

\* a verification report with one row that is eligible for deletion
DryReport == <<[status |-> "COMPLETE", uuid |-> "u"],
               [status |-> "INCOMPLETE", uuid |-> "u"]>>

DryInit ==
    /\ file = NoFile
    /\ limit = MaxLimit - 1
    /\ nat \in BOOLEAN
    /\ InitRun
    /\ call = [fn |-> "delete", report |-> DryReport, dry |-> TRUE,
               force |-> FALSE, typed |-> "", at |-> "load",
               rows |-> << >>, sent |-> << >>, out |-> << >>,
               saved |-> FALSE, code |-> NoCode]

\* a step of the migration, while the deletion pass is not running
DryMigrate ==
    /\ call.at \in {"load", "exit"}
    /\ Next

\* a step of the deletion pass, while the migration is not running
DryDelete ==
    /\ pc = "idle"
    /\ DeleteNext

DryNext ==
    \/ DryMigrate
    \/ DryDelete

DrySpec == DryInit /\ [][DryNext]_vars

-----------------------------------------------------------------------------
(* make_zoom_api_request and the process-wide token *)

\* the access tokens issued to one process are numbered 1, 2, ...; calls are
\* started while fewer than this many have been issued
MaxTokens == 3

\* the HTTP methods the wrapper is called with (lines 202, 310, 386, 469) and
\* the one its docstring adds (line 412)
ApiMethods == {"GET", "DELETE", "POST"}

\* what session.request does: a status code, or it raises
ApiAnswers == {"200", "204", "401", "404", "500", "raises"}

\* what load_access_token does: it sets the header, finds no access_token
\* and calls system.exit(1), or its request raises
RefreshOutcomes == {"ok", "nokey", "raises"}

\* line 436: raise_for_status raises HTTPError for a 4xx or 5xx status
RaiseForStatus(status) == status \in {"401", "404", "500"}

\* lines 436-442: the end of the wrapper on the last response
ApiResult(status) ==
    IF RaiseForStatus(status) THEN "HTTPError"
    ELSE IF status = "204" THEN "None"
    ELSE "json"

\* a call of the wrapper with the token of lines 132-133, 189-192 in force
ApiCall(method, token) ==
    [fn |-> "api", method |-> method, token |-> token, at |-> "first",
     sent |-> << >>, answers |-> << >>, refreshes |-> 0, result |-> "pending"]

\* lines 598, 118: the token is loaded before the first call
ApiInit ==
    /\ NoMigration
    /\ \E method \in ApiMethods : call = ApiCall(method, 1)

\* lines 415-422: the first attempt
ApiFirst(answer) ==
    /\ call.fn = "api"
    /\ call.at = "first"
    /\ call' = IF answer = "raises"
               THEN [call EXCEPT
                       !.sent = Append(@, [method |-> call.method, token |-> call.token]),
                       !.at = "done", !.result = "ConnectionError"]
               ELSE [call EXCEPT
                       !.sent = Append(@, [method |-> call.method, token |-> call.token]),
                       !.answers = Append(@, answer),
                       !.at = IF answer = "401" THEN "refresh" ELSE "check"]
    /\ HelperFrame

\* lines 425-431, 168-197: the token refresh after a 401
ApiRefresh(outcome) ==
    /\ call.fn = "api"
    /\ call.at = "refresh"
    /\ call' = CASE outcome = "ok" ->
                      [call EXCEPT !.refreshes = @ + 1, !.token = @ + 1,
                                   !.at = "retry"]
                 [] outcome = "nokey" ->
                      [call EXCEPT !.refreshes = @ + 1, !.at = "done",
                                   !.result = "SystemExit"]
                 [] OTHER ->
                      [call EXCEPT !.refreshes = @ + 1, !.at = "done",
                                   !.result = "RefreshError"]
    /\ HelperFrame

ApiRetry_Again(answer) ==
    /\ call.fn = "api"
    /\ call.at = "retry"
    /\ call' = IF answer = "raises"
               THEN [call EXCEPT
                       !.sent = Append(@, [method |-> call.method, token |-> call.token]),
                       !.at = "done", !.result = "ConnectionError"]
               ELSE [call EXCEPT
                       !.sent = Append(@, [method |-> call.method, token |-> call.token]),
                       !.answers = Append(@, answer),
                       !.at = IF answer = "401" THEN "refresh" ELSE "check"]
    /\ HelperFrame

\* lines 433-434: the retry goes on to raise_for_status whatever
\* it answers
ApiRetry(answer) ==
    /\ call.fn = "api"
    /\ call.at = "retry"
    /\ call' = IF answer = "raises"
               THEN [call EXCEPT
                       !.sent = Append(@, [method |-> call.method, token |-> call.token]),
                       !.at = "done", !.result = "ConnectionError"]
               ELSE [call EXCEPT
                       !.sent = Append(@, [method |-> call.method, token |-> call.token]),
                       !.answers = Append(@, answer),
                       !.at = "check"]
    /\ HelperFrame

\* lines 436-442: raise_for_status and the return value
ApiReturn ==
    /\ call.fn = "api"
    /\ call.at = "check"
    /\ call' = [call EXCEPT !.at = "done",
                            !.result = ApiResult(call.answers[Len(call.answers)])]
    /\ HelperFrame

\* the next call of the same process, unless the process has exited
ApiAgain(method) ==
    /\ call.fn = "api"
    /\ call.at = "done"
    /\ call.result # "SystemExit"
    /\ call.token < MaxTokens
    /\ call' = ApiCall(method, call.token)
    /\ HelperFrame

ApiNext ==
    \/ \E answer \in ApiAnswers : ApiFirst(answer)
    \/ \E outcome \in RefreshOutcomes : ApiRefresh(outcome)
    \/ \E answer \in ApiAnswers : ApiRetry(answer)
    \/ ApiReturn
    \/ \E method \in ApiMethods : ApiAgain(method)

ApiSpec == ApiInit /\ [][ApiNext]_vars

-----------------------------------------------------------------------------
(* GoogleDriveClient.upload_file and _handle_upload_with_refresh *)

\* the largest max_retries of the configuration that is tried (line 239: 3
\* when the configuration has none)
MaxRetries == 3

\* the depth of nested _handle_upload_with_refresh calls at which the
\* interpreter raises RecursionError (1000 by default; kept small here)
RecursionLimit == 3

\* what request.execute() does: it returns the created file, raises
\* HttpError with this status, or raises another error
ExecuteAnswers == {"ok", "401", "403", "500", "raises"}

\* google_drive_client.py lines 226-244: upload_file is entered
UploadInit ==
    /\ NoMigration
    /\ \E retries \in 0 .. MaxRetries :
          call = [fn |-> "upload", retries |-> retries, at |-> "prepare",
                  attempt |-> 0, depth |-> 0, requests |-> 0, slept |-> 0,
                  logged |-> 0, result |-> "pending"]

\* lines 228-244, 281-283: the folder is found and the loop is entered, or
\* the preparation fails and False is returned; range(0) has no iteration,
\* and the function then ends without a return statement
UploadPrepare(ok) ==
    /\ call.fn = "upload"
    /\ call.at = "prepare"
    /\ call' = IF ~ok THEN [call EXCEPT !.at = "done", !.result = "False"]
               ELSE IF call.retries = 0
                    THEN [call EXCEPT !.at = "done", !.result = "None"]
                    ELSE [call EXCEPT !.at = "execute"]
    /\ HelperFrame

\* lines 268-280: the handler of one attempt: sleep and go round again, or
\* on the last attempt write the failed log and return False
AttemptFailed(c) ==
    IF c.attempt < c.retries - 1
    THEN [c EXCEPT !.attempt = @ + 1, !.depth = 0, !.slept = @ + 1,
                   !.at = "execute"]
    ELSE [c EXCEPT !.logged = @ + 1, !.at = "done", !.result = "False"]

\* lines 125-141, 260-266: request.execute(); on 401 or 403 the credentials
\* are refreshed and the function calls itself, with no bound of its own
UploadExecute(answer) ==
    /\ call.fn = "upload"
    /\ call.at = "execute"
    /\ call' = IF answer = "ok"
               THEN [call EXCEPT !.requests = @ + 1, !.at = "done",
                                 !.result = "True"]
               ELSE IF answer \in {"401", "403"}
                    THEN IF call.depth + 1 < RecursionLimit
                         THEN [call EXCEPT !.requests = @ + 1, !.at = "refresh"]
                         ELSE AttemptFailed([call EXCEPT !.requests = @ + 1])
                    ELSE AttemptFailed([call EXCEPT !.requests = @ + 1])
    /\ HelperFrame

\* lines 131-140: credentials.refresh or authenticate succeeds and the
\* request is executed again one call deeper, or it fails and the error
\* leaves the attempt
UploadRefresh(ok) ==
    /\ call.fn = "upload"
    /\ call.at = "refresh"
    /\ call' = IF ok
               THEN [call EXCEPT !.depth = @ + 1, !.at = "execute"]
               ELSE AttemptFailed(call)
    /\ HelperFrame

UploadNext ==
    \/ \E ok \in BOOLEAN : UploadPrepare(ok)
    \/ \E answer \in ExecuteAnswers : UploadExecute(answer)
    \/ \E ok \in BOOLEAN : UploadRefresh(ok)

UploadSpec == UploadInit /\ [][UploadNext]_vars

-----------------------------------------------------------------------------
(* Where the files of one matched session are put at the destination by   *)
(* the runs of the migration, and where the verification pass looks        *)

\* the recording_files entry has no recording_type key
Absent == "(absent)"

\* the entries the provider lists: file_type and recording_type
ZoomFileKinds ==
    { [type |-> "MP4", rtype |-> "shared_screen"],
      [type |-> "M4A", rtype |-> "audio_only"],
      [type |-> "TIMELINE", rtype |-> Absent],
      [type |-> "", rtype |-> Absent],
      [type |-> "", rtype |-> "shared_screen"] }

\* lines 257-262: the recording_type that get_downloads hands on
RecordingType(f) ==
    IF f.type = "" THEN "incomplete"
    ELSE IF f.type # "TIMELINE" THEN f.rtype
    ELSE f.type

\* lines 225-245: the file name made from the type label and the file id;
\* the folder name is made from the topic and time of the session alone
FormatFilename(rtype, id) == [label |-> rtype, id |-> id]
SessionFolder == <<"topic - time">>

\* lines 737-743, 761-763: the name the migration uploads file k under
UploadName(files, k) == FormatFilename(RecordingType(files[k]), k)

\* verify_migration.py lines 104-110: the name the verification looks for;
\* file_info["recording_type"] raises KeyError when the key is absent
LookupRaises(files, k) == files[k].rtype = Absent
LookupName(files, k) == FormatFilename(files[k].rtype, k)

\* google_drive_client.py lines 173-190: the folders with this name under
\* this parent, as indices into the folders created so far
FoldersNamed(folders, name, parent) ==
    {i \in 1 .. Len(folders) :
        folders[i].name = name /\ folders[i].parent = parent}

DestInit ==
    /\ NoMigration
    /\ \E n \in 1 .. MaxZoomFiles : \E files \in [1 .. n -> ZoomFileKinds] :
          call = [fn |-> "dest", files |-> files, at |-> "idle", run |-> 0,
                  root |-> 0, folders |-> << >>, stored |-> << >>,
                  status |-> "none"]

DestSetup_FindsRoot ==
    /\ call.fn = "dest"
    /\ call.at = "idle"
    /\ call.run < MaxStarts
    /\ Len(call.stored) < Len(call.files)
    /\ call' = IF call.root = 0
               THEN [call EXCEPT
                       !.run = @ + 1, !.at = "run",
                       !.root = Len(call.folders) + 1,
                       !.folders = Append(@, [name |-> <<"root">>, parent |-> 0])]
               ELSE [call EXCEPT !.run = @ + 1, !.at = "run"]
    /\ HelperFrame

\* lines 604-613, 136-165, google_drive_client.py lines 285-290: a run of
\* the migration starts and creates its root folder, named with the time
DestSetup ==
    /\ call.fn = "dest"
    /\ call.at = "idle"
    /\ call.run < MaxStarts
    /\ Len(call.stored) < Len(call.files)
    /\ call' = [call EXCEPT
                  !.run = @ + 1, !.at = "run",
                  !.root = Len(call.folders) + 1,
                  !.folders = Append(@, [name |-> <<"root", call.run + 1>>,
                                         parent |-> 0])]
    /\ HelperFrame

\* lines 759-763, google_drive_client.py lines 163-224, 226-266: the next
\* file of the session is uploaded: the session folder is looked up under
\* the root folder of this run and created when it is not there
DestUpload ==
    /\ call.fn = "dest"
    /\ call.at = "run"
    /\ Len(call.stored) < Len(call.files)
    /\ LET k == Len(call.stored) + 1
           found == FoldersNamed(call.folders, SessionFolder, call.root)
           parent == IF found # {} THEN CHOOSE i \in found : TRUE
                     ELSE Len(call.folders) + 1
       IN  call' = [call EXCEPT
                      !.folders = IF found # {} THEN @
                                  ELSE Append(@, [name |-> SessionFolder,
                                                  parent |-> call.root]),
                      !.stored = Append(@, [name |-> UploadName(call.files, k),
                                            parent |-> parent,
                                            run |-> call.run])]
    /\ HelperFrame

\* lines 734, 794-799: the run ends, halted by the budget or at the end of
\* the manifest
DestEnd ==
    /\ call.fn = "dest"
    /\ call.at = "run"
    /\ call' = [call EXCEPT !.at = "idle"]
    /\ HelperFrame

\* verify_migration.py lines 96-130: the status of the row once every file
\* of the session has been uploaded
VerifyStatus(files, stored) ==
    IF \E k \in 1 .. Len(files) : LookupRaises(files, k) THEN "ERROR"
    ELSE IF "find_file" \notin DriveMethods THEN "ERROR"
    ELSE IF \A k \in 1 .. Len(files) :
               \E j \in 1 .. Len(stored) : stored[j].name = LookupName(files, k)
         THEN "COMPLETE"
         ELSE "INCOMPLETE"

DestVerify ==
    /\ call.fn = "dest"
    /\ call.at = "idle"
    /\ Len(call.stored) = Len(call.files)
    /\ call' = [call EXCEPT !.at = "verified",
                            !.status = VerifyStatus(call.files, call.stored)]
    /\ HelperFrame

DestNext ==
    \/ DestSetup
    \/ DestUpload
    \/ DestEnd
    \/ DestVerify

DestSpec == DestInit /\ [][DestNext]_vars

-----------------------------------------------------------------------------
(* Two migration processes started on the same ledger file; each has its *)
(* own ProgressLog object, and the file has no lock                      *)

Procs == {1, 2}

\* the files of the manifest in the order in which a run comes to them
WorkList == Rows[1].files \o Rows[2].files \o Rows[3].files \o Rows[4].files

PairFrame ==
    UNCHANGED <<log, pc, now, limit, nat, dryRun, rowIdx, fileIdx, uploadOk,
                exitCode, starts, recordedOn, startDay, prevDay, ev>>

\* call holds, for each process, where it stands, its ledger in memory and
\* its place in the work list
PairInit ==
    /\ NoMigration
    /\ call = [fn |-> "pair",
               at |-> [p \in Procs |-> "idle"],
               logs |-> [p \in Procs |-> CreateNewLog],
               idx |-> [p \in Procs |-> 1]]

\* lines 596: ProgressLog(args.log_file) in process p
PairLoad(p) ==
    /\ call.fn = "pair"
    /\ call.at[p] = "idle"
    /\ call' = [call EXCEPT !.at[p] = "loop", !.logs[p] = NewProgressLog(file)]
    /\ UNCHANGED <<file, uploads>>
    /\ PairFrame

\* lines 704-705: the file is complete in the memory of process p
PairSkip(p) ==
    /\ call.fn = "pair"
    /\ call.at[p] = "loop"
    /\ call.idx[p] <= Len(WorkList)
    /\ IsCompleted(call.logs[p], WorkList[call.idx[p]])
    /\ call' = [call EXCEPT !.idx[p] = @ + 1]
    /\ UNCHANGED <<file, uploads>>
    /\ PairFrame

\* lines 736-767: process p downloads and uploads the file
PairTransfer(p) ==
    /\ call.fn = "pair"
    /\ call.at[p] = "loop"
    /\ call.idx[p] <= Len(WorkList)
    /\ ~IsCompleted(call.logs[p], WorkList[call.idx[p]])
    /\ uploads' = [uploads EXCEPT ![WorkList[call.idx[p]]] = @ + 1]
    /\ call' = [call EXCEPT !.at[p] = "record"]
    /\ UNCHANGED file
    /\ PairFrame

PairRecord_Merges(p) ==
    /\ call.fn = "pair"
    /\ call.at[p] = "record"
    /\ LET f == WorkList[call.idx[p]] IN
       /\ file' = WrittenFile(SavedLog(Inserted(LoadLog(file), f, FileSize[f]),
                                       now))
       /\ call' = [call EXCEPT
                     !.logs[p] = LogCompleted(@, f, FileSize[f], now),
                     !.at[p] = "loop", !.idx[p] = @ + 1]
    /\ UNCHANGED uploads
    /\ PairFrame

\* lines 773-775, progress_log.py lines 64-75: process p records the file
\* and writes its whole ledger over the file
PairRecord(p) ==
    /\ call.fn = "pair"
    /\ call.at[p] = "record"
    /\ LET f == WorkList[call.idx[p]] IN
       /\ file' = LogCompletedFile(file, call.logs[p], f, FileSize[f], now)
       /\ call' = [call EXCEPT
                     !.logs[p] = LogCompleted(@, f, FileSize[f], now),
                     !.at[p] = "loop", !.idx[p] = @ + 1]
    /\ UNCHANGED uploads
    /\ PairFrame

\* lines 796-799: the final save of process p
PairEnd(p) ==
    /\ call.fn = "pair"
    /\ call.at[p] = "loop"
    /\ call.idx[p] > Len(WorkList)
    /\ file' = WrittenFile(SavedLog(call.logs[p], now))
    /\ call' = [call EXCEPT !.at[p] = "ended",
                            !.logs[p] = SavedLog(@, now)]
    /\ UNCHANGED uploads
    /\ PairFrame

PairNext ==
    \/ \E p \in Procs : PairLoad(p)
    \/ \E p \in Procs : PairSkip(p)
    \/ \E p \in Procs : PairTransfer(p)
    \/ \E p \in Procs : PairRecord(p)
    \/ \E p \in Procs : PairEnd(p)

PairSpec == PairInit /\ [][PairNext]_vars

-----------------------------------------------------------------------------
(* Properties *)

Total(lg) == lg.total_completed_recordings
Daily(lg) == lg.daily_completed_recordings

InLoop == pc \in {"row", "file", "download", "upload", "record"}

\* the positions of the manifest after the current one
Later == {p \in (1 .. Len(Rows)) \X (1 .. 2) :
            /\ p[2] <= Len(Rows[p[1]].files)
            /\ \/ p[1] > rowIdx
               \/ p[1] = rowIdx /\ p[2] > fileIdx}

\* C1: a file is in the all-time mapping only after it was uploaded to the
\* destination successfully (the download and the upload both succeeded).
C1_RecordedOnlyAfterTransfer ==
    \A f \in DOMAIN Total(file.data) : uploads[f] >= 1

\* C2: across runs that end by exhaustion, budget halt or crash, on the same
\* or on a new day, every file is uploaded successfully at most once.
C2_TransferredAtMostOnce ==
    \A f \in FileIds : uploads[f] <= 1

\* C3: the total size recorded complete on one UTC day, over all runs of
\* that day, never exceeds the daily limit, and neither does the sum of the
\* same-day mapping, in memory or on disk.
C3_DailyBudget ==
    /\ \A d \in Days : recordedOn[d] <= limit
    /\ GetBatchSize(log) <= limit
    /\ GetBatchSize(file.data) <= limit

\* a second run of the same day has used the limit up and is refused more
C3_Witness ==
    /\ ev.op = "refuse"
    /\ starts >= 2
    /\ startDay = prevDay
    /\ recordedOn[startDay] = limit

\* C4: once admission of a file is refused, the run is at its final save,
\* and nothing is downloaded, uploaded or recorded before the process ends.
C4_HaltAtOnce ==
    [][ev.op = "refuse" =>
          /\ pc = "final"
          /\ pc' \in {"final", "idle"}
          /\ uploads' = uploads
          /\ recordedOn' = recordedOn
          /\ Total(file'.data) = Total(file.data)]_vars

\* the run has halted although a later file would still fit in the budget
C4_Witness ==
    /\ ev.op = "refuse"
    /\ pc = "final"
    /\ \E p \in Later :
         LET f == Rows[p[1]].files[p[2]]
         IN  /\ f \notin DOMAIN Total(log)
             /\ GetBatchSize(log) + FileSize[f] <= limit

\* C5: a file that is not complete is refused exactly when the same-day
\* usage plus its size is strictly greater than the daily limit.
C5_Admission ==
    ev.op \in {"admit", "refuse"} =>
        /\ ev.usage = GetBatchSize(log)
        /\ ev.op = "refuse" <=> ev.usage + ev.size > limit

\* with usage one unit under the limit, a file of one unit is admitted
C5_Witness ==
    /\ ev.op = "admit"
    /\ ev.usage = limit - 1
    /\ ev.usage > 0
    /\ ev.size = 1

\* C6: the day check of a run that finds the last-run date before today
\* clears the same-day mapping and keeps the all-time mapping, in memory and
\* on disk; and reset_batch_size does so in every state of the ledger.
C6_ResetFrame ==
    [][/\ pc # "idle" =>
            /\ Daily(ResetBatchSize(log, now)) = EmptyMap
            /\ Total(ResetBatchSize(log, now)) = Total(log)
       /\ (pc = "daycheck" /\ pc' = "row" /\ GetLastRunDate(log) # NoDate
             /\ GetLastRunDate(log) < DateOf(now)) =>
            /\ Daily(log') = EmptyMap
            /\ Total(log') = Total(log)
            /\ file'.state = "ok"
            /\ Daily(file'.data) = EmptyMap
            /\ Total(file'.data) = Total(log)]_vars

\* a new day's run has just cleared a same-day mapping that had entries
C6_Witness ==
    /\ ev.op = "reset"
    /\ ev.usage > 0
    /\ pc = "row"
    /\ Daily(log) = EmptyMap
    /\ Total(log) # EmptyMap
    /\ Total(file.data) = Total(log)

\* C7 as stated: when the first run started on a later UTC day than the run
\* before it begins row processing, no file recorded on an earlier day
\* counts against the budget: the same-day usage is at most what was
\* recorded on the day the run started.
C7_NoEarlierDayUsage ==
    (/\ pc = "row"
     /\ ev.op \in {"reset", "no_reset"}
     /\ prevDay # NoDate
     /\ startDay > prevDay) => GetBatchSize(log) <= recordedOn[startDay]

\* C7 as amended: a run whose day check finds the date of the ledger's last
\* save before today begins row processing with an empty same-day mapping;
\* otherwise it begins with the same-day mapping that was last persisted;
\* and the same-day mapping never loses an entry once row processing began.
C7_DayRollover ==
    [][/\ (pc = "daycheck" /\ pc' = "row") =>
            IF /\ file.state = "ok"
               /\ file.data.last_run_utc \div TicksPerDay < now \div TicksPerDay
            THEN Daily(log') = EmptyMap
            ELSE Daily(log') = Daily(file.data) /\ file' = file
       /\ (InLoop /\ pc' # "idle") =>
            \A f \in DOMAIN Daily(log) :
                f \in DOMAIN Daily(log') /\ Daily(log')[f] = Daily(log)[f]]_vars

\* a later run of the same day begins with the usage of the run before it
C7_Witness ==
    /\ pc = "row"
    /\ ev.op = "no_reset"
    /\ ev.usage > 0
    /\ startDay = prevDay
    /\ Daily(log) = Daily(file.data)

\* C8: log_completed(f, s) on a complete f changes neither the ledger in
\* memory nor the file, whatever s is; on an incomplete f it makes f
\* complete with size s and the all-time total grows by exactly s.
C8_Idempotent ==
    [][(pc = "ledger" /\ pc' = "ledger" /\ ev'.op = "log_completed") =>
          /\ IsCompleted(log', ev'.fid)
          /\ IF ev'.fid \in DOMAIN Total(log)
             THEN log' = log /\ file' = file
             ELSE /\ Total(log')[ev'.fid] = ev'.size
                  /\ SumValues(Total(log')) = SumValues(Total(log)) + ev'.size
                  /\ log'.total_completed_gb = SumValues(Total(log)) + ev'.size
                  /\ file'.data = log']_vars

\* a repeated call with another size has left the recorded size alone
C8_Witness ==
    /\ ev.op = "log_completed"
    /\ ev.fid \in DOMAIN Total(log)
    /\ Total(log)[ev.fid] # ev.size
    /\ ev.usage = SumValues(Total(log))

\* C9: the loop skips the file it examines exactly when the file is a key
\* of the all-time mapping, whether or not it is in the same-day mapping.
C9_CompletionByAllTime ==
    [][(pc = "file" /\ fileIdx <= Len(Rows[rowIdx].files) /\ now' = now) =>
          (CurFile \in DOMAIN Total(log)
             <=> (pc' = "file" /\ fileIdx' = fileIdx + 1 /\ ev'.op = "skip"
                    /\ uploads' = uploads /\ log' = log))]_vars

\* a file recorded on an earlier day is skipped after the day reset
C9_Witness ==
    /\ ev.op = "skip"
    /\ ev.fid \in DOMAIN Total(log)
    /\ ev.fid \notin DOMAIN Daily(log)

\* C10: every file of the same-day mapping is in the all-time mapping with
\* the same size, in memory and in the file.
C10_DailyWithinTotal ==
    \A lg \in {log, file.data} :
        \A f \in DOMAIN Daily(lg) :
            f \in DOMAIN Total(lg) /\ Total(lg)[f] = Daily(lg)[f]

\* a reloaded ledger whose same-day mapping is a proper part of the all-time one
C10_Witness ==
    /\ ev.op = "load"
    /\ Daily(log) # EmptyMap
    /\ DOMAIN Daily(log) # DOMAIN Total(log)

\* every key of m is a key of n with the same size
Kept(m, n) == \A f \in DOMAIN m : f \in DOMAIN n /\ n[f] = m[f]

\* C11: the all-time mapping is append-only: no step removes a key from it or
\* changes the size of a key, in the file, in the memory of a running
\* process, and from the file to the memory of the process that loads it.
C11_AppendOnly ==
    [][/\ Kept(Total(LoadLog(file)), Total(LoadLog(file')))
       /\ (pc # "idle" /\ pc' # "idle") => Kept(Total(log), Total(log'))
       /\ (pc = "idle" /\ pc' # "idle") => Kept(Total(LoadLog(file)), Total(log'))
       /\ pc' # "idle" => Kept(Total(log'), Total(LoadLog(file')))]_vars

\* a later run has loaded a non-empty all-time mapping and reset the day
C11_Witness ==
    /\ ev.op = "reset"
    /\ starts >= 2
    /\ Total(log) # EmptyMap
    /\ Daily(log) = EmptyMap
    /\ Total(file.data) = Total(log)

\* C12: a crash at any point of a run loses at most the in-flight file: the
\* ledger that the next run loads has every file that the crashed process
\* had recorded.
C12_CrashKeepsRecorded ==
    [][ev'.op \in {"crash", "crash_in_save"} =>
          Kept(Total(log), Total(LoadLog(file')))]_vars

\* the two mappings of lg and of what is loaded from fl are the same
SameMappings(lg, fl) ==
    /\ Total(LoadLog(fl)) = Total(lg)
    /\ Daily(LoadLog(fl)) = Daily(lg)

C14_LoadNeverAborts ==
    ev.op \in {"load", "load_abort"} =>
        /\ pc = "ledger"
        /\ file.state # "ok" =>
              (Total(log) = EmptyMap /\ Daily(log) = EmptyMap /\ log.run_counter = 1)

\* the process ends in this step
Exits == pc # "idle" /\ pc' = "idle"

\* C15: on every termination path of the migration (manifest exhausted,
\* budget signal raised, or unrecoverable setup error before the loop starts)
\* the ledger is persisted once more, as a final save, before the process exits.
C15_FinalSaveOnEveryPath ==
    [][Exits => file' = WrittenFile(SavedLog(log, now))]_vars

\* C15 (amended): a run that reaches the row loop ends with exactly one final
\* save of the ledger it holds, whether the manifest was exhausted, the budget
\* signal was raised or an exception left the loop; a run that fails during
\* setup exits with code 1 and does not save.
C15_FinalSaveAfterLoop ==
    [][/\ Exits =>
            IF pc = "setup"
            THEN file' = file /\ exitCode' = 1
            ELSE /\ pc = "final" \/ (pc = "row" /\ ev'.op = "row_abort")
                 /\ file' = WrittenFile(SavedLog(log, now))
       /\ (pc' = "final" /\ pc # "final") =>
            ev'.op \in {"exhausted", "refuse", "token_fail"}
       /\ (pc = "final" /\ ~Exits) => (pc' = "final" /\ file' = file)]_vars

\* a later run has exhausted the manifest and saved a non-empty ledger
C15_Witness ==
    /\ ev.op = "final_save"
    /\ ev.fid = ""
    /\ exitCode = 0
    /\ file.state = "ok"
    /\ file.data.run_counter >= 2
    /\ file.data.last_run_utc > TicksPerDay
    /\ Total(file.data) # EmptyMap

\* C16: a fatal setup failure ends the process with exit code 1 before any
\* state mutation: from the start of the process to that exit the ledger file
\* is left exactly as it was and no file is transferred or recorded.
C16_SetupFailure ==
    [][/\ (pc = "idle" /\ pc' = "setup") => file' = file
       /\ pc = "setup" =>
            /\ file' = file
            /\ uploads' = uploads
            /\ recordedOn' = recordedOn
            /\ Exits => (ev'.op = "setup_fail" /\ exitCode' = 1)
       /\ (ev'.op = "setup_fail" /\ pc # "idle") => (pc = "setup" /\ Exits)]_vars

\* a later run failed in setup and left a non-empty ledger file alone
C16_Witness ==
    /\ ev.op = "setup_fail"
    /\ pc = "idle"
    /\ exitCode = 1
    /\ starts >= 2
    /\ file.state = "ok"
    /\ Total(file.data) # EmptyMap
    /\ file.data.run_counter < starts

\* C17: budget exhaustion is a planned halt: the run stops without touching
\* the refused file, the final save of the ledger still runs, every file
\* recorded before the halt is in the persisted ledger, and the process ends
\* with exit code 0.
C17_PlannedHalt ==
    [][/\ (pc = "file" /\ ev'.op = "refuse") =>
            (pc' = "final" /\ log' = log /\ file' = file /\ uploads' = uploads)
       /\ (pc = "final" /\ ev.op = "refuse") =>
            \/ pc' = "final" /\ file' = file /\ ev' = ev
            \/ /\ Exits
               /\ exitCode' = 0
               /\ file'.state = "ok"
               /\ SameMappings(log, file')
               /\ Kept(Total(LoadLog(file)), Total(LoadLog(file')))]_vars

\* a run that recorded a file was halted by the budget and ended normally
C17_Witness ==
    /\ ev.op = "final_save"
    /\ ev.fid # ""
    /\ ev.fid \notin DOMAIN Total(file.data)
    /\ pc = "idle"
    /\ exitCode = 0
    /\ file.state = "ok"
    /\ Daily(file.data) # EmptyMap

\* C18: an unexpected error raised while processing one manifest row never
\* aborts the batch: the row is skipped, what the run recorded stays
\* recorded, and the run goes on with the next row; the loop is left only
\* when the manifest is exhausted or the budget refuses a file.
C18_RowErrorSkipsRow ==
    [][/\ (pc = "row" /\ ev'.op \in {"row_error", "row_abort", "token_fail"}) =>
            (pc' = "row" /\ rowIdx' = rowIdx + 1 /\ log' = log /\ file' = file)
       /\ (InLoop /\ ~InLoop') => ev'.op \in {"exhausted", "refuse"}]_vars

\* the row under examination has no provider recording, or one without files
Unmatched ==
    /\ pc = "row"
    /\ rowIdx <= Len(Rows)
    /\ ~Rows[rowIdx].match \/ Rows[rowIdx].files = << >>

\* C19: a manifest row without a matching provider recording, or whose
\* recording has no files, is skipped: nothing is recorded or transferred for
\* it, the run advances to the next row, and every later run examines the
\* row again, since each run starts at the first row.
C19_UnmatchedRowSkipped ==
    [][/\ (pc = "row" /\ now' = now /\ ev'.op \in {"no_match", "no_files"}) =>
            /\ Unmatched
            /\ pc' = "row" /\ rowIdx' = rowIdx + 1
            /\ log' = log /\ file' = file
            /\ uploads' = uploads /\ recordedOn' = recordedOn
            /\ exitCode' = exitCode
       /\ Unmatched => pc' # "file"
       /\ (pc = "daycheck" /\ pc' # "daycheck") => (pc' = "row" /\ rowIdx' = 1)]_vars

\* a later run, holding a non-empty ledger, has skipped the row without files
C19_Witness ==
    /\ ev.op = "no_files"
    /\ pc = "row"
    /\ rowIdx >= 2
    /\ Rows[rowIdx - 1].files = << >>
    /\ starts >= 2
    /\ Total(log) # EmptyMap

\* C20: a file-level transfer failure (a failed download, or an upload that
\* failed after all retries) does not stop the run: the run goes on with the
\* next file of the same row, and so with all later rows.
C20_FileFailureContinues ==
    [][/\ (pc = "download" /\ ev'.op \in {"download_fail", "download_raise"}) =>
            (pc' = "file" /\ rowIdx' = rowIdx /\ fileIdx' = fileIdx + 1)
       /\ (pc = "upload" /\ ev'.op = "upload_fail") =>
            (pc' = "record" /\ rowIdx' = rowIdx /\ fileIdx' = fileIdx)
       /\ (pc = "record" /\ now' = now) =>
            (pc' = "file" /\ rowIdx' = rowIdx /\ fileIdx' = fileIdx + 1)]_vars

\* every file that the provider lists for the manifest is marked complete
AllComplete(lg) == FileIds \subseteq DOMAIN Total(lg)

\* C21: a run over an unchanged manifest with a ledger that marks every file
\* complete downloads and uploads nothing, never raises the budget halt, and
\* leaves the ledger unchanged: the persisted mappings stay as they were.
C21_RerunLeavesLedger ==
    [][(pc # "idle" /\ AllComplete(log)) =>
          /\ pc' \notin {"download", "upload", "record"}
          /\ uploads' = uploads
          /\ Total(LoadLog(file')) = Total(LoadLog(file))
          /\ Daily(LoadLog(file')) = Daily(LoadLog(file))]_vars

\* C21 (amended): such a run downloads and uploads nothing, never raises the
\* budget halt and leaves the all-time mapping unchanged; the same-day
\* mapping is kept or, on a new day, emptied by the day check, and the saves
\* of the run store its run counter and its time.
C21_RerunIdempotent ==
    [][(pc # "idle" /\ AllComplete(log)) =>
          /\ pc' \notin {"download", "upload", "record"}
          /\ ev'.op = "refuse" => ev.op = "refuse"
          /\ uploads' = uploads
          /\ recordedOn' = recordedOn
          /\ Total(LoadLog(file')) = Total(LoadLog(file))
          /\ pc' # "idle" => Total(log') = Total(log)
          /\ \/ Daily(LoadLog(file')) = Daily(LoadLog(file))
             \/ Daily(LoadLog(file')) = EmptyMap /\ ev'.op = "reset"
          /\ file' # file =>
                (file'.data.run_counter = log.run_counter
                   /\ file'.data.last_run_utc = now)]_vars

\* a run that found every file complete on a new day has emptied the
\* same-day mapping and exhausted the manifest without a transfer
C21_Witness ==
    /\ pc = "final"
    /\ ev.op = "exhausted"
    /\ AllComplete(log)
    /\ Daily(log) = EmptyMap
    /\ Total(file.data) = Total(log)

\* the row topic as the matcher compares it: the leading quote is dropped
\* exactly when a dash follows it
Compared(t) ==
    IF Len(t) >= 2 /\ SubSeq(t, 1, 2) = <<Quote, Dash>>
    THEN SubSeq(t, 2, Len(t))
    ELSE t

\* the indices of the candidates that match the row
Matching(row, recs) ==
    {i \in 1 .. Len(recs) :
        /\ row.start # NaT
        /\ recs[i].topic = Compared(row.topic)
        /\ row.start - recs[i].start < Tolerance
        /\ recs[i].start - row.start < Tolerance}

\* C22: the matcher returns the first candidate, in iteration order, whose
\* topic equals the normalized row topic and whose start differs from the
\* row's by strictly less than 5 minutes, and none when there is no such
\* candidate.
C22_FirstMatch ==
    (call.fn = "match" /\ call.done) =>
        LET sat == Matching(call.row, call.recs) IN
        IF sat = {} THEN call.result = None
        ELSE \E i \in sat :
                /\ \A j \in sat : i <= j
                /\ call.result = call.recs[i]

\* the first candidate is exactly 5 minutes away and is passed over for the
\* second one, whose topic equals the row topic without its quote
C22_Witness ==
    /\ call.fn = "match" /\ call.done
    /\ Len(call.recs) = 2
    /\ call.row.topic = <<Quote, Dash, "a">>
    /\ call.recs[1].topic = <<Dash, "a">>
    /\ Abs(call.row.start - call.recs[1].start) = Tolerance
    /\ call.result = call.recs[2]
    /\ call.result # None
    /\ call.recs[2] # call.recs[1]

\* the positions at which a file is examined or in transfer
AtFile == pc \in {"file", "download", "upload", "record"}

\* C23: rows are processed in ascending order of start time and, within a
\* row, files in the order of the provider's listing: a run never moves back
\* to an earlier row or file, a row taken up later does not start earlier,
\* and a transfer is always that of the file at the current position.
C23_AscendingOrder ==
    [][/\ (InLoop /\ InLoop') =>
            /\ rowIdx' \in {rowIdx, rowIdx + 1}
            /\ (rowIdx' > rowIdx /\ rowIdx' <= Len(Rows)) =>
                  Rows[rowIdx].start <= Rows[rowIdx'].start
       /\ (AtFile /\ AtFile') =>
            (rowIdx' = rowIdx /\ fileIdx' \in {fileIdx, fileIdx + 1})
       /\ (~AtFile /\ AtFile') => (rowIdx' = rowIdx /\ fileIdx' = 1)
       /\ uploads' # uploads =>
            /\ AtFile /\ AtFile'
            /\ fileIdx' = fileIdx
            /\ uploads' = [uploads EXCEPT ![CurFile] = @ + 1]]_vars

\* one run has uploaded a file of the first row and then a file of the row
\* that comes third in the CSV file and last by start time
C23_Witness ==
    /\ ev.op = "upload_ok"
    /\ starts = 1
    /\ rowIdx = Len(Rows)
    /\ Rows[rowIdx] = Manifest[3]
    /\ uploads["f1"] = 1
    /\ uploads[CurFile] = 1
    /\ CurFile # "f1"

\* the status that the verification pass is to give a manifest row
Expected(r) ==
    IF r.listing = "raises" THEN "ERROR"
    ELSE IF ~r.match THEN "NO_MATCH_ON_ZOOM"
    ELSE IF r.zoom = 0 THEN "NO_FILES_ON_ZOOM"
    ELSE IF r.drive = r.zoom THEN "COMPLETE"
    ELSE "INCOMPLETE"

\* C24: the verification report has one row per manifest row, with
\* NO_MATCH_ON_ZOOM when nothing matches, NO_FILES_ON_ZOOM when the matched
\* session has no files, COMPLETE when every provider file is at the
\* destination, INCOMPLETE when one is missing, an error tag when the check
\* fails; the two file counts agree with the status.
C24_OneStatusPerRow ==
    (call.fn = "verify" /\ call.saved) =>
        /\ Len(call.report) = Len(call.rows)
        /\ \A i \in 1 .. Len(call.rows) :
              LET r == call.rows[i]
                  out == call.report[i] IN
              /\ out.status = Expected(r)
              /\ out.status = "ERROR" => (out.zoom = NoCount /\ out.drive = NoCount)
              /\ out.status # "ERROR" => (out.zoom = r.zoom /\ out.drive = r.drive)

\* C25: the deletion pass sends a delete request only for report rows whose
\* status is exactly COMPLETE; rows with any other status are never deleted
\* and are not in the deletion report, which has one row per COMPLETE row.
C25_OnlyComplete ==
    call.fn = "delete" =>
        /\ \A k \in 1 .. Len(call.sent) : call.report[call.sent[k]].status = "COMPLETE"
        /\ \A k \in 1 .. Len(call.rows) : call.report[call.rows[k]].status = "COMPLETE"
        /\ call.saved =>
              /\ Len(call.out) = Len(call.rows)
              /\ Len(call.rows) =
                    Cardinality({i \in 1 .. Len(call.report) :
                                    call.report[i].status = "COMPLETE"})

\* a report with a COMPLETE row and a row of another status: one request
\* was sent, and the deletion report has one row
C25_Witness ==
    /\ call.fn = "delete" /\ call.saved
    /\ Len(call.report) = 2
    /\ call.report[1].status = "INCOMPLETE"
    /\ call.report[1].uuid = "u"
    /\ call.sent = <<2>>
    /\ call.out = <<"DELETED">>

\* C26: no delete request is sent unless the run is not a dry run and either
\* --force was given or the operator typed the exact word DELETE; after a
\* wrong or empty word the pass ends without a deletion.
C26_ConfirmedDeletion ==
    call.fn = "delete" =>
        /\ call.sent # << >> =>
              (~call.dry /\ (call.force \/ call.typed = "DELETE"))
        /\ (call.at \notin {"load", "confirm"} /\ call.rows # << >>
              /\ ~call.dry /\ ~call.force /\ call.typed # "DELETE") =>
              (call.at = "exit" /\ call.code = 0 /\ call.sent = << >>
                 /\ call.out = << >> /\ ~call.saved)

\* the operator typed the word, and the request for the eligible row was sent
C26_Witness ==
    /\ call.fn = "delete" /\ call.saved
    /\ ~call.dry /\ ~call.force
    /\ call.typed = "DELETE"
    /\ call.sent # << >>
    /\ Len(call.sent) = Len(call.rows)

\* C27: with --dry-run the migration downloads and uploads nothing and
\* records no file complete, and the deletion pass sends no delete request
\* and reports DRY_RUN_SKIPPED for every eligible row.
C27_DryRunNoEffect ==
    [][/\ (dryRun /\ pc # "idle") =>
            /\ pc' \notin {"file", "download", "upload", "record"}
            /\ uploads' = uploads
            /\ recordedOn' = recordedOn
            /\ Total(LoadLog(file')) = Total(LoadLog(file))
            /\ pc' # "idle" => Total(log') = Total(log)
       /\ (call.fn = "delete" /\ call.dry) =>
            /\ call'.sent = << >>
            /\ call'.saved =>
                  /\ call'.out = [k \in 1 .. Len(call'.rows) |-> "DRY_RUN_SKIPPED"]
                  /\ Len(call'.rows) =
                        Cardinality({i \in 1 .. Len(call.report) :
                                        call.report[i].status = "COMPLETE"})]_vars

\* the deletion pass has reported its dry run, and a later dry run of the
\* migration has then walked the whole manifest with a non-empty ledger
C27_Witness ==
    /\ call.saved
    /\ call.out = <<"DRY_RUN_SKIPPED">>
    /\ dryRun
    /\ pc = "row"
    /\ rowIdx > Len(Rows)
    /\ ev.op = "dry_row"
    /\ Total(log) # EmptyMap
    /\ Total(file.data) = Total(log)

\* the wrapper has ended a call whose first attempt was answered 401
After401 ==
    /\ call.fn = "api"
    /\ call.at = "done"
    /\ call.answers # << >>
    /\ call.answers[1] = "401"

\* C28 as stated: a call answered 401 refreshes the token exactly once and
\* is retried exactly once, so it is sent at most twice, and a retry that
\* fails ends the call with an error.
C28_OneRefreshOneRetry ==
    call.fn = "api" =>
       /\ Len(call.sent) <= 2
       /\ After401 =>
             /\ call.refreshes = 1
             /\ Len(call.sent) = 2
             /\ call.sent[2].method = call.sent[1].method
       /\ (call.at = "done" /\ Len(call.sent) = 2) =>
             \/ call.result \in {"json", "None"} /\ ~RaiseForStatus(call.answers[2])
             \/ call.result = "HTTPError" /\ RaiseForStatus(call.answers[2])
             \/ call.result = "ConnectionError" /\ Len(call.answers) = 1

\* C28: a call answered 401 refreshes the token exactly once; when the
\* refresh sets a new token the same call is retried exactly once with it,
\* and when the refresh fails the call is not retried and ends with the
\* refresh's error or process exit; the call is sent at most twice, and a
\* retry that fails, a second 401 included, ends the call with an error.
C28_RefreshThenRetry ==
    call.fn = "api" =>
       /\ Len(call.sent) <= 2
       /\ call.refreshes <= 1
       /\ call.refreshes = 1 => call.answers[1] = "401"
       /\ After401 =>
             /\ call.refreshes = 1
             /\ IF call.result \in {"SystemExit", "RefreshError"}
                THEN Len(call.sent) = 1
                ELSE /\ Len(call.sent) = 2
                     /\ call.sent[2].method = call.sent[1].method
                     /\ call.sent[2].token = call.sent[1].token + 1
       /\ (call.at = "done" /\ Len(call.sent) = 2) =>
             \/ call.result \in {"json", "None"} /\ ~RaiseForStatus(call.answers[2])
             \/ call.result = "HTTPError" /\ RaiseForStatus(call.answers[2])
             \/ call.result = "ConnectionError" /\ Len(call.answers) = 1

\* a call whose retry was answered 401 again has ended with HTTPError after
\* two requests and one refresh
C28_Witness ==
    /\ After401
    /\ call.answers = <<"401", "401">>
    /\ call.result = "HTTPError"
    /\ Len(call.sent) = 2
    /\ call.refreshes = 1

\* C29: an upload sends at most max_retries requests to the destination,
\* each one after the first preceded by the delay, and when every attempt
\* has failed it has written one entry to the failed log and returns False.
C29_BoundedAttempts ==
    call.fn = "upload" =>
       /\ call.requests <= call.retries
       /\ call.requests <= call.slept + 1
       /\ (call.at = "done" /\ call.requests > 0 /\ call.result # "True") =>
             /\ call.result = "False"
             /\ call.logged = 1

\* C30: SIGINT at any point of a run ends the process without another
\* transfer: the process goes to its final save or ends, nothing more is
\* uploaded, a file that was being downloaded or uploaded is not recorded,
\* the files recorded so far stay recorded, and the ledger file that the
\* ended process leaves is well-formed and holds every file recorded before
\* the signal.
C30_SigintKeepsLedger ==
    [][ev'.op \in {"sigint", "sigint_in_record", "sigint_outside", "sigint_in_save"} =>
          /\ pc' \in {"final", "idle"}
          /\ uploads' = uploads
          /\ pc \in {"download", "upload"} => CurFile \notin DOMAIN Total(log')
          /\ pc' = "final" => Kept(Total(log), Total(log'))
          /\ pc' = "idle" =>
                /\ file'.state # "corrupt"
                /\ Kept(Total(log), Total(LoadLog(file')))]_vars

\* the files the provider lists for the rows of the manifest
ManifestFiles ==
    UNION {{Rows[i].files[k] : k \in 1 .. Len(Rows[i].files)} : i \in 1 .. Len(Rows)}

\* the first run, started on no ledger file, has ended after its final save
FirstRunEnded ==
    /\ starts = 1
    /\ pc = "idle"
    /\ ev.op = "final_save"

\* C31: a run from an empty ledger in which nothing fails and whose files
\* fit the daily limit together leaves a ledger that reports every file of
\* every row complete with its size, and a same-day usage equal to the sum
\* of the file sizes.
C31_CleanRunCompletes ==
    (FirstRunEnded /\ SumOver(FileSize, ManifestFiles) <= limit) =>
       /\ file.state = "ok"
       /\ exitCode = 0
       /\ DOMAIN Total(file.data) = ManifestFiles
       /\ \A f \in ManifestFiles : Total(file.data)[f] = FileSize[f]
       /\ GetBatchSize(file.data) = SumOver(FileSize, ManifestFiles)
       /\ file.data.total_completed_gb = SumOver(FileSize, ManifestFiles)

\* such a run has ended, each file uploaded once
C31_Witness ==
    /\ FirstRunEnded
    /\ SumOver(FileSize, ManifestFiles) <= limit
    /\ DOMAIN Total(file.data) = ManifestFiles
    /\ GetBatchSize(file.data) = SumOver(FileSize, ManifestFiles)
    /\ \A f \in ManifestFiles : uploads[f] = 1

\* the values of deletion_status
DeletionStatuses == {"DELETED", "ALREADY_DELETED_OR_NOT_FOUND", "ERROR_500",
                     "SKIPPED_NO_UUID", "DRY_RUN_SKIPPED"}

\* C32: a deletion pass that has sent a delete request ends with the report
\* written and one deletion status for every eligible row: SKIPPED_NO_UUID,
\* with no request, for a row without a uuid, and otherwise a status for
\* the answer to the row's one request, whatever that answer was.
C32_OneDeletionStatus ==
    (call.fn = "delete" /\ call.at = "exit" /\ call.sent # << >>) =>
       /\ call.saved
       /\ Len(call.out) = Len(call.rows)
       /\ \A k \in 1 .. Len(call.rows) :
             /\ call.out[k] \in DeletionStatuses
             /\ call.out[k] = "SKIPPED_NO_UUID" <=> call.report[call.rows[k]].uuid = ""
             /\ call.report[call.rows[k]].uuid = "" =>
                   \A j \in 1 .. Len(call.sent) : call.sent[j] # call.rows[k]

\* the run counter that a start would load from the ledger file
Persisted == LoadLog(file).run_counter

\* C33 as stated: every start raises the run counter by one over the
\* persisted value and persists it at once, so the persisted counter is
\* the number of process starts however the runs ended.
C33_CounterCountsStarts ==
    Persisted = starts

\* C33: every start raises the run counter by one over the persisted value,
\* in memory; the value is persisted by each save of the run and not at the
\* start, so a run that ends before its first save (setup failure, kill)
\* leaves the persisted counter as it was, a kill during a save leaves a
\* file without a counter, and the persisted counter never exceeds the
\* number of starts.
C33_CounterSavedLater ==
    [][/\ Persisted <= starts
       /\ ev'.op = "start" /\ starts' = starts + 1 =>
             /\ log'.run_counter = Persisted + 1
             /\ file' = file
       /\ (file' # file /\ file'.state = "ok") =>
             file'.data.run_counter = log.run_counter
       /\ (ev'.op \in {"setup_fail", "crash"} /\ pc # "idle") => file' = file
       /\ (file' # file /\ file'.state # "ok") => ev'.op = "crash_in_save"]_vars

\* two runs have failed in setup after a run that saved: three starts, the
\* persisted counter is 1
C33_Witness ==
    /\ starts = 3
    /\ file.state = "ok"
    /\ Persisted = 1
    /\ ev.op = "setup_fail"

\* C34: every write of the ledger file (save, reset_batch_size, a
\* log_completed that inserts) stores an all-time total equal to the sum of
\* the sizes in the all-time mapping it stores, whatever total was loaded.
C34_TotalRecomputed ==
    [][(ev'.op \in {"save", "reset"} \/ file' # file) =>
          /\ file'.state = "ok"
          /\ file'.data.total_completed_gb = SumValues(Total(file'.data))
          /\ log'.total_completed_gb = SumValues(Total(log'))]_vars

\* a file stored with a wrong total has been loaded and saved
C34_Witness ==
    /\ ev.op = "save"
    /\ call.total = 3
    /\ Total(file.data) = "f1" :> 1
    /\ file.data.total_completed_gb = 1
    /\ file.data.run_counter = 2

\* C35: only the budget signal is a planned halt: a run that leaves the row
\* loop because the token refresh asked for exit code 1 is not ended like a
\* budget halt: it ends with exit code 1.
C35_ExitCodeKept ==
    [][(pc = "final" /\ ev.op = "token_fail" /\ pc' = "idle") =>
          exitCode' = 1]_vars

\* the root folder above the folder that holds stored file j
RootOf(j) == call.folders[call.stored[j].parent].parent

\* C36: a session whose files were all uploaded by the migration is
\* classified COMPLETE by the verification pass that follows: the pass
\* looks every file up under the name it was uploaded under.
C36_VerifiedComplete ==
    (call.fn = "dest" /\ call.at = "verified") =>
       /\ call.status = "COMPLETE"
       /\ \A k \in 1 .. Len(call.files) :
             /\ ~LookupRaises(call.files, k)
             /\ LookupName(call.files, k) = call.stored[k].name

\* C37 as stated: all files the migration uploaded are under one root
\* folder, whichever run uploaded them.
C37_OneRoot ==
    call.fn = "dest" =>
       \A j, k \in 1 .. Len(call.stored) : RootOf(j) = RootOf(k)

\* C37: the files uploaded by one run are under one root folder, the one
\* that run created, and in one session folder; each run creates a root
\* folder of its own, so the files of a session uploaded by two runs are
\* under two root folders, in session folders of the same name.
C37_OneRootPerRun ==
    call.fn = "dest" =>
       /\ Cardinality(FoldersNamed(call.folders, <<"root", call.run>>, 0))
             = IF call.run = 0 THEN 0 ELSE 1
       /\ \A j, k \in 1 .. Len(call.stored) :
             /\ call.folders[call.stored[j].parent].name = SessionFolder
             /\ call.stored[j].run = call.stored[k].run <=> RootOf(j) = RootOf(k)
             /\ call.stored[j].run = call.stored[k].run =>
                   call.stored[j].parent = call.stored[k].parent

\* a session of two files, one uploaded by the first run and one by the
\* second, lies under two root folders
C37_Witness ==
    /\ call.fn = "dest"
    /\ Len(call.stored) = 2
    /\ call.stored[1].run = 1
    /\ call.stored[2].run = 2
    /\ RootOf(1) # RootOf(2)
    /\ call.at = "idle"

\* the number of files the persisted ledger reports complete
Recorded == Cardinality(DOMAIN Total(LoadLog(file)))

\* a process has just started, on another UTC day than the process before
NewDayStart ==
    /\ pc = "setup"
    /\ ev.op = "start"
    /\ startDay # prevDay

\* a process is at its day check with a usage of zero: no run has saved yet,
\* or the last save was on an earlier UTC day
FreshDay ==
    /\ pc = "daycheck"
    /\ \/ GetLastRunDate(log) = NoDate
       \/ NeedsReset(GetLastRunDate(log), DateOf(now))

\* C38 as stated: every run started on a new UTC day, with nothing failing,
\* records at least one more file as long as files are left, so that daily
\* runs record every file in the end.
C38_DailyRunProgress ==
    \A n \in 0 .. Cardinality(ManifestFiles) - 1 :
       (NewDayStart /\ Recorded = n) ~> (Recorded > n)

\* C38: with nothing failing and no file larger than the daily limit, every
\* run whose day check finds the last save on an earlier UTC day (or no save
\* at all) records at least one more file as long as files are left.
C38_FreshRunProgress ==
    \A n \in 0 .. Cardinality(ManifestFiles) - 1 :
       (FreshDay /\ Recorded = n /\ \A f \in ManifestFiles : FileSize[f] <= limit)
          ~> (Recorded > n)

\* a run on a later day than the halted one has recorded the last file
C38_Witness ==
    /\ starts = 2
    /\ pc = "idle"
    /\ ev.op = "final_save"
    /\ Recorded = Cardinality(ManifestFiles)
    /\ limit < SumOver(FileSize, ManifestFiles)
    /\ recordedOn[startDay] > 0
    /\ recordedOn[prevDay] > 0
    /\ startDay # prevDay

\* a file that process p holds as recorded is missing from the ledger file
LostBy(p) ==
    \E f \in DOMAIN Total(call.logs[p]) : f \notin DOMAIN Total(LoadLog(file))

\* C39: the ledger file has no lock: every write by a process replaces the
\* file with the ledger that process holds in memory (what it held before
\* and at most one new file), whatever the other process had written, and a process transfers every file that its own
\* memory does not hold, whatever the file says; so a file recorded by one
\* process can be missing from the file after the other one saves, and a
\* file can be transferred by both.
C39_LastWriterWins ==
    [][call.fn = "pair" =>
         /\ file' # file =>
               \E p \in Procs :
                  /\ <<call'.at[p], call'.idx[p]>> # <<call.at[p], call.idx[p]>>
                  /\ LoadLog(file') = call'.logs[p]
                  /\ \E f \in FileIds :
                        DOMAIN Total(LoadLog(file')) \subseteq
                            DOMAIN Total(call.logs[p]) \cup {f}
         /\ \A f \in FileIds :
               uploads'[f] # uploads[f] =>
                  \E p \in Procs :
                     /\ call.at[p] = "loop"
                     /\ call'.at[p] = "record"
                     /\ ~IsCompleted(call.logs[p], f)]_vars

\* a file was transferred by both processes, and a file that one of them
\* recorded is missing from the ledger file that the other one has written
C39_Witness ==
    /\ call.fn = "pair"
    /\ \E f \in FileIds : uploads[f] = 2
    /\ \E p \in Procs : LostBy(p)
    /\ file.state = "ok"

====
